---------------------------- MODULE Spec2Model ----------------------------
(***************************************************************************)
(* ITF Masters Tour: bracket placement, match result/advancement state     *)
(* machine, score validation and synthetic score generation.               *)
(*                                                                         *)
(* Specifications in this module:                                          *)
(*   SpecMatch  create_match_skeleton / apply_result_and_advance over the  *)
(*              Matches, PlayerSuspensions and Players tables              *)
(*   SpecDraw   generate_draw_players                                      *)
(*   SpecScore  ScoreGenerator checked against TennisMatchValidator        *)
(*   SpecPoints   calculate_points_history                                 *)
(*   SpecRanking  calculate_weekly_ranking                                 *)
(*   SpecValidate TennisMatchValidator.validate_match on stored records    *)
(***************************************************************************)
EXTENDS Integers, Sequences, FiniteSets, Bags, TLC

VARIABLES
    Matches,            \* Matches table: sequence of rows, index = match_id
    PlayerSuspensions,  \* PlayerSuspensions table: sequence of rows, index = suspension_id
    Players,            \* Players.status_id per player_id
    DrawPlayers,        \* DrawPlayers table of the draw: draw_position -> player_id (None = no row)
    last,               \* outcome of the last service call
    calls,              \* service calls made so far
    dp,                 \* generate_draw_players: inputs, random outcomes and returned rows
    sg,                 \* ScoreGenerator: request and returned GeneratedMatch
    ph,                 \* calculate_points_history: arguments and returned PointsHistory records
    wr,                 \* calculate_weekly_ranking: arguments and returned WeeklyRanking records
    vm,                 \* TennisMatchValidator.validate_match: record, status and returned errors
    sd,                 \* seeding engine: arguments and returned SeedAssignment rows
    tx,                 \* concurrent apply_result calls: per-call position, reads and uncommitted writes
    ds,                 \* generate_draw_from_entries: request, query results and persisted Draws/DrawPlayers/DrawSeed rows
    km                  \* generate_knockout_matches: draw players, current round and the matches returned

vars == <<Matches, PlayerSuspensions, Players, DrawPlayers, last, calls, dp, sg, ph, wr, vm, sd, tx, ds, km>>

matchVars == <<Matches, PlayerSuspensions, Players, DrawPlayers, last, calls>>
dbVars    == <<Matches, PlayerSuspensions, Players>>

\* Python None / SQL NULL
None == -1

Max(a, b) == IF a >= b THEN a ELSE b
Min(a, b) == IF a <= b THEN a ELSE b
Abs(a)    == IF a >= 0 THEN a ELSE 0 - a

(***************************************************************************)
(* Score Validator  (scripts/validation/validate_tennis_matches.py)        *)
(***************************************************************************)
STATUS_SCHEDULED    == 1
STATUS_COMPLETED    == 2
STATUS_WALKOVER     == 3
STATUS_RETIRED      == 4
STATUS_CANCELLED    == 5
STATUS_DISQUALIFIED == 6

MatchStatusIds == 1..6

ScoreFieldNames ==
    {"set1_player1", "set1_player2", "set1_tiebreak_player1", "set1_tiebreak_player2",
     "set2_player1", "set2_player2", "set2_tiebreak_player1", "set2_tiebreak_player2",
     "set3_player1", "set3_player2", "set3_tiebreak_player1", "set3_tiebreak_player2",
     "set3_supertiebreak_player1", "set3_supertiebreak_player2"}

_blank_score_fields == [f \in ScoreFieldNames |-> None]

valid_scores ==
    {<<6, 0>>, <<6, 1>>, <<6, 2>>, <<6, 3>>, <<6, 4>>, <<7, 5>>, <<7, 6>>,
     <<0, 6>>, <<1, 6>>, <<2, 6>>, <<3, 6>>, <<4, 6>>, <<5, 7>>, <<6, 7>>}

validate_set_score_with_six_five(player1_games, player2_games) ==
    IF player1_games = None \/ player2_games = None THEN FALSE
    ELSE <<player1_games, player2_games>> \in valid_scores \cup {<<6, 5>>, <<5, 6>>}

validate_set_score(player1_games, player2_games) ==
    IF player1_games = None \/ player2_games = None THEN FALSE
    ELSE IF player1_games > 7 \/ player2_games > 7 THEN FALSE
    ELSE IF player1_games = 7 /\ player2_games = 7 THEN FALSE
    ELSE <<player1_games, player2_games>> \in valid_scores

validate_tiebreak_score_any_margin(tb_player1, tb_player2) ==
    IF tb_player1 = None \/ tb_player2 = None THEN FALSE
    ELSE IF Max(tb_player1, tb_player2) < 7 THEN FALSE
    ELSE TRUE

validate_tiebreak_score(tb_player1, tb_player2) ==
    IF tb_player1 = None \/ tb_player2 = None THEN FALSE
    ELSE IF Max(tb_player1, tb_player2) < 7 THEN FALSE
    ELSE IF Abs(tb_player1 - tb_player2) < 2 THEN FALSE
    ELSE TRUE

validate_supertiebreak_score_to_seven(stb_player1, stb_player2) ==
    IF stb_player1 = None \/ stb_player2 = None THEN FALSE
    ELSE IF Max(stb_player1, stb_player2) < 7 THEN FALSE
    ELSE IF Abs(stb_player1 - stb_player2) < 2 THEN FALSE
    ELSE TRUE

validate_supertiebreak_score(stb_player1, stb_player2) ==
    IF stb_player1 = None \/ stb_player2 = None THEN FALSE
    ELSE IF Max(stb_player1, stb_player2) < 10 THEN FALSE
    ELSE IF Abs(stb_player1 - stb_player2) < 2 THEN FALSE
    ELSE TRUE

validate_partial_set_score(player1_games, player2_games) ==
    IF player1_games = None \/ player2_games = None THEN FALSE
    ELSE IF player1_games < 0 \/ player2_games < 0 THEN FALSE
    ELSE IF player1_games > 6 \/ player2_games > 6 THEN FALSE
    ELSE IF player1_games = player2_games THEN FALSE
    ELSE IF player1_games = 6 /\ player2_games = 6 THEN FALSE
    ELSE IF validate_set_score(player1_games, player2_games) THEN FALSE
    ELSE TRUE

validate_partial_tiebreak_score(tb_player1, tb_player2) ==
    IF tb_player1 = None \/ tb_player2 = None THEN FALSE
    ELSE IF tb_player1 < 0 \/ tb_player2 < 0 THEN FALSE
    ELSE IF tb_player1 = tb_player2 THEN FALSE
    ELSE IF validate_tiebreak_score(tb_player1, tb_player2) THEN FALSE
    ELSE TRUE

validate_partial_supertiebreak_score(stb_player1, stb_player2) ==
    IF stb_player1 = None \/ stb_player2 = None THEN FALSE
    ELSE IF stb_player1 < 0 \/ stb_player2 < 0 THEN FALSE
    ELSE IF stb_player1 = stb_player2 THEN FALSE
    ELSE IF validate_supertiebreak_score(stb_player1, stb_player2) THEN FALSE
    ELSE TRUE

requires_tiebreak(player1_games, player2_games) ==
    IF player1_games = None \/ player2_games = None THEN FALSE
    ELSE (player1_games = 7 /\ player2_games = 6) \/ (player1_games = 6 /\ player2_games = 7)

sets_are_split(set1_p1, set1_p2, set2_p1, set2_p2) ==
    IF set1_p1 = None \/ set1_p2 = None \/ set2_p1 = None \/ set2_p2 = None THEN FALSE
    ELSE (set1_p1 > set1_p2) # (set2_p1 > set2_p2)

\* Error lists are modelled as sets of message kinds; ok <=> the set is empty.
validate_match_scores_for_status(match_data, match_status_id) ==
    LET has_set1 == match_data.set1_player1 # None
        has_set2 == match_data.set2_player1 # None
        has_set3 == match_data.set3_player1 # None \/ match_data.set3_supertiebreak_player1 # None
    IN  IF match_status_id = STATUS_SCHEDULED
        THEN IF has_set1 \/ has_set2 \/ has_set3 THEN {<<"Match", "Scheduled match cannot have scores">>} ELSE {}
        ELSE IF match_status_id = STATUS_COMPLETED
        THEN IF ~has_set1 \/ ~has_set2 THEN {<<"Match", "Completed match must have at least 2 sets">>} ELSE {}
        ELSE IF match_status_id = STATUS_WALKOVER
        THEN {}
        ELSE IF match_status_id = STATUS_RETIRED
        THEN IF ~has_set1 THEN {<<"Match", "Retired match must have at least set 1 scores">>} ELSE {}
        ELSE IF match_status_id = STATUS_DISQUALIFIED
        THEN IF ~has_set1 THEN {<<"Match", "Disqualified match must have at least set 1 scores">>} ELSE {}
        ELSE IF match_status_id = STATUS_CANCELLED
        THEN IF has_set1 \/ has_set2 \/ has_set3 THEN {<<"Match", "Cancelled match cannot have scores">>} ELSE {}
        ELSE {}

\* Result of the nested helper: <<set_is_present, set_is_partial_or_incomplete, errors>>
_validate_set_for_retirement(label, g1, g2, tb1, tb2) ==
    IF g1 = None /\ g2 = None
    THEN <<FALSE, FALSE,
           IF tb1 # None \/ tb2 # None THEN {<<label, "tie-break values require games">>} ELSE {}>>
    ELSE IF (g1 = None) # (g2 = None)
    THEN <<TRUE, TRUE, {<<label, "must have both game values or be NULL">>}>>
    ELSE IF validate_set_score(g1, g2)
    THEN IF requires_tiebreak(g1, g2)
         THEN IF tb1 = None \/ tb2 = None
              THEN <<TRUE, TRUE, {<<label, "requires tie-break">>}>>
              ELSE IF ~validate_tiebreak_score(tb1, tb2)
              THEN <<TRUE, TRUE, {<<label, "Invalid tie-break">>}>>
              ELSE <<TRUE, FALSE, {}>>
         ELSE IF tb1 # None \/ tb2 # None
              THEN <<TRUE, TRUE, {<<label, "should not have tie-break">>}>>
              ELSE <<TRUE, FALSE, {}>>
    ELSE IF validate_partial_set_score(g1, g2)
    THEN <<TRUE, TRUE,
           IF tb1 # None \/ tb2 # None THEN {<<label, "partial score must not have tie-break">>} ELSE {}>>
    ELSE IF g1 = 6 /\ g2 = 6
    THEN IF tb1 = None \/ tb2 = None
         THEN <<TRUE, TRUE, {<<label, "score 6-6 requires tie-break points for retired match">>}>>
         ELSE <<TRUE, TRUE,
                IF ~(validate_tiebreak_score(tb1, tb2) \/ validate_partial_tiebreak_score(tb1, tb2))
                THEN {<<label, "Invalid tie-break">>} ELSE {}>>
    ELSE <<TRUE, TRUE, {<<label, "Invalid score for retired match">>}>>

\* validate_match, branch for STATUS_RETIRED / STATUS_DISQUALIFIED
validate_match_retired(m, status_errors) ==
    IF m.set1_player1 = None \/ m.set1_player2 = None
    THEN status_errors \cup {<<"Match", "Retired match must have Set 1 score values">>}
    ELSE
    LET has_any_set3_normal == m.set3_player1 # None \/ m.set3_player2 # None
                               \/ m.set3_tiebreak_player1 # None \/ m.set3_tiebreak_player2 # None
        has_any_set3_stb == m.set3_supertiebreak_player1 # None \/ m.set3_supertiebreak_player2 # None
    IN  IF has_any_set3_normal /\ has_any_set3_stb
        THEN status_errors \cup {<<"Match", "Set 3 cannot have both normal set and super tie-break">>}
        ELSE
        LET s1 == _validate_set_for_retirement("Set 1", m.set1_player1, m.set1_player2,
                                               m.set1_tiebreak_player1, m.set1_tiebreak_player2)
            s2 == _validate_set_for_retirement("Set 2", m.set2_player1, m.set2_player2,
                                               m.set2_tiebreak_player1, m.set2_tiebreak_player2)
            s3 == IF has_any_set3_stb
                  THEN IF (m.set3_supertiebreak_player1 = None) # (m.set3_supertiebreak_player2 = None)
                       THEN <<TRUE, TRUE, {<<"Match", "Set 3 super tie-break must have both point values or be NULL">>}>>
                       ELSE IF validate_supertiebreak_score(m.set3_supertiebreak_player1,
                                                            m.set3_supertiebreak_player2)
                       THEN <<TRUE, FALSE, {}>>
                       ELSE IF validate_partial_supertiebreak_score(m.set3_supertiebreak_player1,
                                                                    m.set3_supertiebreak_player2)
                       THEN <<TRUE, TRUE, {}>>
                       ELSE <<TRUE, TRUE, {<<"Match", "Invalid Set 3 super tie-break">>}>>
                  ELSE _validate_set_for_retirement("Set 3", m.set3_player1, m.set3_player2,
                                                    m.set3_tiebreak_player1, m.set3_tiebreak_player2)
            set1_incomplete == s1[2]
            set2_present    == s2[1]
            set2_incomplete == s2[2]
            set3_present    == s3[1]
            set3_incomplete == s3[2]
        IN  status_errors \cup s1[3] \cup s2[3] \cup s3[3]
            \cup (IF set1_incomplete /\ (set2_present \/ set3_present)
                  THEN {<<"Match", "Retired in Set 1: Set 2 and Set 3 must be NULL">>} ELSE {})
            \cup (IF ~set1_incomplete /\ set2_incomplete /\ set3_present
                  THEN {<<"Match", "Retired in Set 2: Set 3 must be NULL">>} ELSE {})
            \cup (IF ~(set1_incomplete \/ set2_incomplete \/ set3_incomplete) /\ set2_present
                  THEN {<<"Match", "Retired match must contain an incomplete set/tie-break or truncated later sets">>}
                  ELSE {})

\* validate_match, per-set block of the general branch (Set 1 and Set 2)
validate_match_set12(label, p1, p2, tb1, tb2) ==
    IF p1 # None /\ p2 # None
    THEN (IF ~validate_set_score(p1, p2) THEN {<<label, "Invalid score">>} ELSE {})
         \cup (IF requires_tiebreak(p1, p2)
               THEN IF tb1 = None \/ tb2 = None THEN {<<label, "requires tie-break">>}
                    ELSE IF ~validate_tiebreak_score(tb1, tb2) THEN {<<label, "Invalid tie-break">>}
                    ELSE {}
               ELSE IF tb1 # None \/ tb2 # None THEN {<<label, "should not have tie-break">>} ELSE {})
    ELSE {}

\* validate_match, Set 3 block of the general branch (no "should not have tie-break" arm)
validate_match_set3(p1, p2, tb1, tb2) ==
    IF p1 # None /\ p2 # None
    THEN (IF ~validate_set_score(p1, p2) THEN {<<"Set 3", "Invalid score">>} ELSE {})
         \cup (IF requires_tiebreak(p1, p2)
               THEN IF tb1 = None \/ tb2 = None THEN {<<"Set 3", "requires tie-break">>}
                    ELSE IF ~validate_tiebreak_score(tb1, tb2) THEN {<<"Set 3", "Invalid tie-break">>}
                    ELSE {}
               ELSE {})
    ELSE {}

\* validate_match(match_data) -> set of errors; m carries the score fields, status the match_status_id
validate_match_errors(m, status) ==
    LET status_errors == validate_match_scores_for_status(m, status)
    IN  IF status \in {STATUS_SCHEDULED, STATUS_CANCELLED}
        THEN status_errors
        ELSE IF status \in {STATUS_RETIRED, STATUS_DISQUALIFIED}
        THEN validate_match_retired(m, status_errors)
        ELSE status_errors
             \cup validate_match_set12("Set 1", m.set1_player1, m.set1_player2,
                                       m.set1_tiebreak_player1, m.set1_tiebreak_player2)
             \cup validate_match_set12("Set 2", m.set2_player1, m.set2_player2,
                                       m.set2_tiebreak_player1, m.set2_tiebreak_player2)
             \cup (IF status = STATUS_COMPLETED
                      /\ sets_are_split(m.set1_player1, m.set1_player2, m.set2_player1, m.set2_player2)
                   THEN LET has_normal_set3   == m.set3_player1 # None /\ m.set3_player2 # None
                            has_supertiebreak == m.set3_supertiebreak_player1 # None
                                                 /\ m.set3_supertiebreak_player2 # None
                        IN  (IF ~has_normal_set3 /\ ~has_supertiebreak
                             THEN {<<"Match", "Third set required when first two sets are split">>} ELSE {})
                            \cup (IF has_normal_set3 /\ has_supertiebreak
                                  THEN {<<"Match", "Set 3 cannot have both normal set and super tie-break">>} ELSE {})
                   ELSE {})
             \cup validate_match_set3(m.set3_player1, m.set3_player2,
                                      m.set3_tiebreak_player1, m.set3_tiebreak_player2)
             \cup (IF m.set3_supertiebreak_player1 # None /\ m.set3_supertiebreak_player2 # None
                      /\ ~validate_supertiebreak_score(m.set3_supertiebreak_player1,
                                                       m.set3_supertiebreak_player2)
                   THEN {<<"Match", "Invalid super tie-break">>} ELSE {})

validate_match(m, status) == validate_match_errors(m, status) = {}

(***************************************************************************)
(* Match Advancement State Machine  (scripts/services/match_service.py)    *)
(***************************************************************************)
\* Smallest bracket created by _draw_size_from_num_entries
DrawSize == 8
BracketPositions == 1..DrawSize

\* The draw under test and its tournament (Draws row); UnknownDrawId has no rows at all
DrawId        == 1
TournamentId  == 1
UnknownDrawId == 2
DrawIdArgs    == {DrawId, UnknownDrawId}

\* player_id of the entrant placed at a draw position, and an id that is in no match of the draw
PlayerAt(pos) == 10 + pos
Outsider      == 99
PlayerIds     == {PlayerAt(pos) : pos \in BracketPositions} \cup {Outsider}

PLAYER_STATUS_ACTIVE    == 1
PLAYER_STATUS_SUSPENDED == 4

\* Bounds of the service-call sequences explored
MaxSkeletonCalls == 2
MaxApplyCalls    == 2

\* DrawPlayers tables as generate_draw_players leaves them: the empty positions are the
\* opponent slots of bye players (positions 2 and 7 beside seeds 1 and 2 at positions 1 and 8,
\* the second slot of a pair for an unseeded bye player): a full draw, one bye, the two
\* seeded byes, and two unseeded byes feeding the same second-round match.
ByePositionSets == {{}, {2}, {2, 7}, {2, 4}}

DrawPlayersTables ==
    {[pos \in BracketPositions |-> IF pos \in E THEN None ELSE PlayerAt(pos)] : E \in ByePositionSets}

_draw_size_from_num_entries(num_entries) ==
    IF num_entries <= 8 THEN 8
    ELSE IF num_entries <= 16 THEN 16
    ELSE IF num_entries <= 32 THEN 32
    ELSE 64

_starting_round_id(draw_size) ==
    CASE draw_size = 8  -> 4
      [] draw_size = 16 -> 3
      [] draw_size = 32 -> 2
      [] draw_size = 64 -> 1
      [] OTHER          -> 1

RECURSIVE Pow2(_)
Pow2(n) == IF n = 0 THEN 1 ELSE 2 * Pow2(n - 1)

_matches_in_round(draw_size, round_offset) == (draw_size \div 2) \div Pow2(round_offset)

\* Scorelines a caller may submit (payload score fields)
ScoreBlank == _blank_score_fields
ScoreTwoSets ==
    [_blank_score_fields EXCEPT !.set1_player1 = 6, !.set1_player2 = 3,
                                !.set2_player1 = 6, !.set2_player2 = 4]
ScoreSixFive ==
    [_blank_score_fields EXCEPT !.set1_player1 = 6, !.set1_player2 = 5]
ScoreSamples == {ScoreBlank, ScoreTwoSets, ScoreSixFive}

NoCall == [op |-> "none", outcome |-> "none", draw_id |-> None, match_id |-> None,
           match_status_id |-> None, winner_id |-> None, score |-> _blank_score_fields,
           repeat |-> FALSE]

\* Rows of one round inserted by the skeleton loop (lines 105-151)
SkeletonRoundRows(draw_id, pos_to_player, first_id, round_id, round_offset, mcount) ==
    [i \in 1..mcount |->
        [match_id        |-> first_id + i - 1,
         draw_id         |-> draw_id,
         round_id        |-> round_id,
         match_number    |-> i,
         player1_id      |-> IF round_offset = 0 THEN pos_to_player[2 * (i - 1) + 1] ELSE None,
         player2_id      |-> IF round_offset = 0 THEN pos_to_player[2 * (i - 1) + 2] ELSE None,
         match_status_id |-> STATUS_SCHEDULED,
         winner_id       |-> None,
         score           |-> _blank_score_fields]]

\* The while-loop of create_match_skeleton (lines 100-157): one round per iteration
RECURSIVE SkeletonRows(_, _, _, _, _, _)
SkeletonRows(draw_id, pos_to_player, draw_size, next_match_id, round_id, round_offset) ==
    LET mcount == _matches_in_round(draw_size, round_offset)
    IN  IF mcount < 1 THEN << >>
        ELSE LET rows == SkeletonRoundRows(draw_id, pos_to_player, next_match_id,
                                           round_id, round_offset, mcount)
             IN  IF mcount = 1 THEN rows
                 ELSE rows \o SkeletonRows(draw_id, pos_to_player, draw_size,
                                           next_match_id + mcount, round_id + 1, round_offset + 1)

\* UPDATE Matches SET player<slot>_id = pid WHERE draw_id, round_id, match_number
SetSlot(table, draw_id, round_id, match_number, to_player1, pid) ==
    [k \in DOMAIN table |->
        IF table[k].draw_id = draw_id /\ table[k].round_id = round_id
           /\ table[k].match_number = match_number
        THEN IF to_player1 THEN [table[k] EXCEPT !.player1_id = pid]
                           ELSE [table[k] EXCEPT !.player2_id = pid]
        ELSE table[k]]

\* Bye auto-advance (lines 159-186): the SELECT is taken once, the UPDATEs run row by row
IsByeMatch(row, draw_id, start_round_id) ==
    /\ row.draw_id = draw_id
    /\ row.round_id = start_round_id
    /\ (row.player1_id = None \/ row.player2_id = None)
    /\ ~(row.player1_id = None /\ row.player2_id = None)

RECURSIVE AdvanceByes_cascade(_, _, _, _, _)
AdvanceByes_cascade(table, bye_matches, k, draw_id, start_round_id) ==
    IF k > Len(bye_matches) THEN table
    ELSE LET bm        == bye_matches[k]
             winner_id == IF bm.player2_id = None THEN bm.player1_id ELSE bm.player2_id
             mn        == bm.match_number
             next_mn   == (mn + 1) \div 2
             next_rid  == start_round_id + 1
             advanced  == SetSlot(table, draw_id, next_rid, next_mn, mn % 2 = 1, winner_id)
         IN  AdvanceByes_cascade(
                 SetSlot(advanced, draw_id, next_rid + 1, (next_mn + 1) \div 2,
                         next_mn % 2 = 1, winner_id),
                 bye_matches, k + 1, draw_id, start_round_id)

RECURSIVE AdvanceByes(_, _, _, _, _)
AdvanceByes(table, bye_matches, k, draw_id, start_round_id) ==
    IF k > Len(bye_matches) THEN table
    ELSE LET bm        == bye_matches[k]
             winner_id == IF bm.player2_id = None THEN bm.player1_id ELSE bm.player2_id
             mn        == bm.match_number
             next_mn   == (mn + 1) \div 2
             next_rid  == start_round_id + 1
         IN  AdvanceByes(SetSlot(table, draw_id, next_rid, next_mn, mn % 2 = 1, winner_id),
                         bye_matches, k + 1, draw_id, start_round_id)

NumEntries(table) == Cardinality({pos \in DOMAIN table : table[pos] # None})

\* create_match_skeleton(draw_id, tournament_start_date)
create_match_skeleton(draw_id) ==
    /\ calls' = [calls EXCEPT !.skeleton = @ + 1]
    /\ IF draw_id # DrawId
       THEN /\ last' = [NoCall EXCEPT !.op = "create_match_skeleton", !.draw_id = draw_id,
                                      !.outcome = "no_draw_players"]
            /\ UNCHANGED dbVars
       ELSE LET draw_size      == _draw_size_from_num_entries(NumEntries(DrawPlayers))
                start_round_id == _starting_round_id(draw_size)
                inserted       == Matches \o SkeletonRows(draw_id, DrawPlayers, draw_size,
                                                          Len(Matches) + 1, start_round_id, 0)
                bye_matches    == SelectSeq(inserted,
                                            LAMBDA row : IsByeMatch(row, draw_id, start_round_id))
            IN  /\ Matches' = AdvanceByes(inserted, bye_matches, 1, draw_id, start_round_id)
                /\ last' = [NoCall EXCEPT !.op = "create_match_skeleton", !.draw_id = draw_id,
                                          !.outcome = "ok"]
                /\ UNCHANGED <<PlayerSuspensions, Players>>
    /\ UNCHANGED <<DrawPlayers, dp, sg, ph, wr, vm, sd, tx, ds, km>>

\* UPDATE Matches SET status, winner, scores WHERE match_id AND draw_id (lines 290-312)
UpdateCurrentMatch(table, draw_id, payload) ==
    [k \in DOMAIN table |->
        IF table[k].match_id = payload.match_id /\ table[k].draw_id = draw_id
        THEN [table[k] EXCEPT !.match_status_id = payload.match_status_id,
                              !.winner_id = payload.winner_id,
                              !.score = payload.score]
        ELSE table[k]]

\* Advance winner (lines 449-471)
AdvanceWinner_swapped(table, draw_id, round_id, match_number, winner_id) ==
    SetSlot(table, draw_id, round_id + 1, (match_number + 1) \div 2, (match_number % 2) = 0, winner_id)

AdvanceWinner(table, draw_id, round_id, match_number, winner_id) ==
    SetSlot(table, draw_id, round_id + 1, (match_number + 1) \div 2, (match_number % 2) = 1, winner_id)

\* SELECT 1 FROM PlayerSuspensions WHERE player_id, tournament_id, reason_match_status_id
SuspensionExists_none(table, player_id, tournament_id, reason) == FALSE

SuspensionExists(table, player_id, tournament_id, reason) ==
    \E k \in DOMAIN table :
        /\ table[k].player_id = player_id
        /\ table[k].tournament_id = tournament_id
        /\ table[k].reason_match_status_id = reason

\* INSERT INTO PlayerSuspensions ... SELECT COALESCE(MAX(suspension_id), 0) + 1, ...
InsertSuspension(table, player_id, tournament_id, reason, months) ==
    Append(table, [suspension_id          |-> Len(table) + 1,
                   player_id              |-> player_id,
                   tournament_id          |-> tournament_id,
                   reason_match_status_id |-> reason,
                   months                 |-> months])

\* Results are submitted for the second first-round match, the match it feeds, the final,
\* and a match_id that is not in the table.
PayloadMatchIds == {2, 5, 7} \cup {Len(Matches) + 1}

\* winner_id of a payload: a participant of the target match or a player who is not in it
PayloadWinnerIds(match_id) ==
    {Outsider} \cup (IF match_id \in DOMAIN Matches
                     THEN {Matches[match_id].player1_id, Matches[match_id].player2_id} \ {None}
                     ELSE {})

Payloads ==
    UNION {[match_id : {id}, match_status_id : MatchStatusIds,
            winner_id : PayloadWinnerIds(id), score : ScoreSamples] : id \in PayloadMatchIds}

\* A rejected call leaves every table as it was, so the call sequences explored stop at the
\* first rejected call: the states after it are the states reachable without it.
CanCall == last.outcome \in {"none", "ok"}

Reject(payload, draw_id, outcome) ==
    /\ last' = [op |-> "apply_result", outcome |-> outcome, draw_id |-> draw_id,
                match_id |-> None, match_status_id |-> payload.match_status_id,
                winner_id |-> None, score |-> payload.score, repeat |-> FALSE]
    /\ UNCHANGED dbVars

\* The call returns normally (commit, lines 473-481). repeat records that the payload is the
\* result the target row m already carried.
Accept(payload, draw_id, m) ==
    last' = [op |-> "apply_result", outcome |-> "ok", draw_id |-> draw_id,
             match_id |-> payload.match_id, match_status_id |-> payload.match_status_id,
             winner_id |-> payload.winner_id, score |-> payload.score,
             repeat |-> /\ m.match_status_id = payload.match_status_id
                        /\ m.winner_id = payload.winner_id
                        /\ m.score = payload.score]

\* Walkover sanction (lines 385-447) followed by the advance and the commit
ApplyWalkover(payload, draw_id, m, updated) ==
    IF payload.winner_id \notin {m.player1_id, m.player2_id}
    THEN Reject(payload, draw_id, "winner_not_participant")
    ELSE LET wo_player_id == IF payload.winner_id = m.player1_id THEN m.player2_id ELSE m.player1_id
             exists       == SuspensionExists(PlayerSuspensions, wo_player_id, TournamentId,
                                              STATUS_WALKOVER)
         IN  IF ~exists /\ wo_player_id = None
             THEN \* PlayerSuspensions.player_id is NOT NULL: the INSERT raises, rollback
                  Reject(payload, draw_id, "integrity_error")
             ELSE /\ IF ~exists
                     THEN /\ PlayerSuspensions' = InsertSuspension(PlayerSuspensions, wo_player_id,
                                                                   TournamentId, STATUS_WALKOVER, 2)
                          /\ Players' = [Players EXCEPT ![wo_player_id] = PLAYER_STATUS_SUSPENDED]
                     ELSE UNCHANGED <<PlayerSuspensions, Players>>
                  /\ Matches' = AdvanceWinner(updated, draw_id, m.round_id, m.match_number,
                                              payload.winner_id)
                  /\ Accept(payload, draw_id, m)

\* Disqualification sanction (lines 314-383): cur is a plain psycopg2 cursor, so fetchone()
\* returns a tuple and row["tournament_id"] raises TypeError; the handler rolls back.
ApplyDisqualified(payload, draw_id, m) ==
    IF payload.winner_id \notin {m.player1_id, m.player2_id}
    THEN Reject(payload, draw_id, "winner_not_participant")
    ELSE Reject(payload, draw_id, "type_error")

\* ok, errors = validator.validate_match(match_dict); if not ok: raise (lines 232-254)
ScoreAccepted_ignored(payload) == TRUE

ScoreAccepted(payload) == validate_match(payload.score, payload.match_status_id)

\* apply_result_and_advance(draw_id, payload)
apply_result_and_advance(draw_id, payload) ==
    /\ calls' = [calls EXCEPT !.apply = @ + 1]
    /\ IF ~ScoreAccepted(payload)
       THEN Reject(payload, draw_id, "score_validation_failed")
       ELSE LET rows == SelectSeq(Matches, LAMBDA row : row.match_id = payload.match_id
                                                         /\ row.draw_id = draw_id)
            IN  IF rows = << >>
                THEN Reject(payload, draw_id, "match_not_found")
                ELSE LET m       == rows[1]
                         updated == UpdateCurrentMatch(Matches, draw_id, payload)
                     IN  IF payload.match_status_id = STATUS_DISQUALIFIED
                         THEN ApplyDisqualified(payload, draw_id, m)
                         ELSE IF payload.match_status_id = STATUS_WALKOVER
                         THEN ApplyWalkover(payload, draw_id, m, updated)
                         ELSE /\ Matches' = AdvanceWinner(updated, draw_id, m.round_id,
                                                          m.match_number, payload.winner_id)
                              /\ UNCHANGED <<PlayerSuspensions, Players>>
                              /\ Accept(payload, draw_id, m)
    /\ UNCHANGED <<DrawPlayers, dp, sg, ph, wr, vm, sd, tx, ds, km>>

Idle == [phase |-> "idle"]

InitMatch ==
    /\ km = Idle
    /\ ds = Idle
    /\ tx = Idle
    /\ sd = Idle
    /\ Matches = << >>
    /\ PlayerSuspensions = << >>
    /\ Players = [p \in PlayerIds |-> PLAYER_STATUS_ACTIVE]
    /\ DrawPlayers \in DrawPlayersTables
    /\ last = NoCall
    /\ calls = [skeleton |-> 0, apply |-> 0]
    /\ dp = Idle
    /\ sg = Idle
    /\ ph = Idle
    /\ wr = Idle
    /\ vm = Idle

CreateMatchSkeleton ==
    /\ CanCall
    /\ calls.skeleton < MaxSkeletonCalls
    /\ \E draw_id \in DrawIdArgs : create_match_skeleton(draw_id)

ApplyResult ==
    /\ CanCall
    /\ calls.apply < MaxApplyCalls
    /\ \E payload \in Payloads : apply_result_and_advance(DrawId, payload)

NextMatch == CreateMatchSkeleton \/ ApplyResult

SpecMatch == InitMatch /\ [][NextMatch]_vars

(***************************************************************************)
(* Properties of the match advancement state machine                       *)
(***************************************************************************)
ApplyOk(l) == l.op = "apply_result" /\ l.outcome = "ok"

\* Rows of the draw at a bracket coordinate
RowsAt(table, draw_id, round_id, match_number) ==
    {k \in DOMAIN table : /\ table[k].draw_id = draw_id
                          /\ table[k].round_id = round_id
                          /\ table[k].match_number = match_number}

FinalRoundId(table, draw_id) ==
    CHOOSE r \in {table[k].round_id : k \in DOMAIN table} :
        \A k \in DOMAIN table : table[k].round_id <= r

\* C1: a successful apply_result on match_number m of round r (not the final) writes
\* payload.winner_id into the match at round r+1, match_number ceil(m/2): into player1_id
\* when m is odd, into player2_id when m is even, and the other slot keeps its value.
C1_WinnerAdvancesToAlgebraicSlot ==
    [][ApplyOk(last') =>
          LET m     == Matches[last'.match_id]
              next  == RowsAt(Matches', m.draw_id, m.round_id + 1,
                              IF m.match_number % 2 = 1 THEN (m.match_number + 1) \div 2
                                                        ELSE m.match_number \div 2)
          IN  m.round_id # FinalRoundId(Matches, m.draw_id) =>
                /\ next # {}
                /\ \A k \in next :
                      IF m.match_number % 2 = 1
                      THEN /\ Matches'[k].player1_id = last'.winner_id
                           /\ Matches'[k].player2_id = Matches[k].player2_id
                      ELSE /\ Matches'[k].player2_id = last'.winner_id
                           /\ Matches'[k].player1_id = Matches[k].player1_id]_vars

\* C1 witness: the winner of first-round match 2 (even) sits in player2_id of match 1 of the
\* next round, whose player1_id is still the value it had.
C1_Witness ==
    /\ ApplyOk(last)
    /\ last.match_id = 2
    /\ Matches[2].match_number = 2
    /\ Matches[5].round_id = Matches[2].round_id + 1
    /\ Matches[5].match_number = 1
    /\ Matches[5].player2_id = last.winner_id
    /\ Matches[5].player2_id # Matches[5].player1_id

\* C2: a match's status only moves from Scheduled to one of Completed, Walkover, Retired,
\* Disqualified, Cancelled, and a match with a non-Scheduled status keeps its status,
\* winner_id and score fields under every later apply_result.
C2_StatusIsTerminal ==
    [][\A k \in DOMAIN Matches :
          /\ Matches'[k].match_status_id # Matches[k].match_status_id =>
                /\ Matches[k].match_status_id = STATUS_SCHEDULED
                /\ Matches'[k].match_status_id \in
                      {STATUS_COMPLETED, STATUS_WALKOVER, STATUS_RETIRED,
                       STATUS_DISQUALIFIED, STATUS_CANCELLED}
          /\ Matches[k].match_status_id # STATUS_SCHEDULED =>
                /\ Matches'[k].match_status_id = Matches[k].match_status_id
                /\ Matches'[k].winner_id = Matches[k].winner_id
                /\ Matches'[k].score = Matches[k].score]_vars

\* C3: when the payload's score fields fail validate_match for the payload's status, the
\* call is rejected and Matches, PlayerSuspensions and Players are left as they were.
C3_InvalidScoreRejectedWithoutMutation ==
    [][(last'.op = "apply_result" /\ ~validate_match(last'.score, last'.match_status_id)) =>
          /\ last'.outcome = "score_validation_failed"
          /\ UNCHANGED dbVars]_vars

\* C3 witness: a Completed payload carrying 6-5 is rejected after an earlier result was stored
C3_Witness ==
    /\ last.op = "apply_result"
    /\ last.outcome = "score_validation_failed"
    /\ last.match_status_id = STATUS_COMPLETED
    /\ last.score = ScoreSixFive
    /\ \E k \in DOMAIN Matches : Matches[k].match_status_id # STATUS_SCHEDULED

\* C4: apply_result with a winner_id that is neither player1_id nor player2_id of the target
\* match is rejected for every match status: no accepted call names a non-participant.
C4_NonParticipantWinnerRejected ==
    ApplyOk(last) =>
        last.winner_id \in {Matches[last.match_id].player1_id, Matches[last.match_id].player2_id}

SuspensionKey(row) == <<row.player_id, row.tournament_id, row.reason_match_status_id>>

SuspensionRowsFor(player_id, tournament_id, reason) ==
    {k \in DOMAIN PlayerSuspensions :
        SuspensionKey(PlayerSuspensions[k]) = <<player_id, tournament_id, reason>>}

\* Two calls carrying the same payload
SameResult(l1, l2) ==
    /\ l1.match_id = l2.match_id
    /\ l1.match_status_id = l2.match_status_id
    /\ l1.winner_id = l2.winner_id
    /\ l1.score = l2.score

\* C5: with calls serialized, PlayerSuspensions holds at most one row per (player_id,
\* tournament_id, reason_match_status_id); after a successful Disqualified or Walkover result
\* exactly one row exists for the participant who is not the winner, with that reason; and
\* applying the same result a second time in a row adds no row.
C5_SuspensionKeysUnique ==
    \A i, j \in DOMAIN PlayerSuspensions :
        SuspensionKey(PlayerSuspensions[i]) = SuspensionKey(PlayerSuspensions[j]) => i = j

C5_LoserHasOneRow ==
    (ApplyOk(last) /\ last.match_status_id \in {STATUS_WALKOVER, STATUS_DISQUALIFIED}) =>
        LET m     == Matches[last.match_id]
            loser == IF last.winner_id = m.player1_id THEN m.player2_id ELSE m.player1_id
        IN  /\ last.winner_id \in {m.player1_id, m.player2_id}
            /\ loser # None
            /\ Cardinality(SuspensionRowsFor(loser, TournamentId, last.match_status_id)) = 1
            /\ Players[loser] = PLAYER_STATUS_SUSPENDED

C6_ByeAutoAdvanceOneRoundOnly ==
    [][(last'.op = "create_match_skeleton" /\ last'.outcome = "ok") =>
          LET created == (Len(Matches) + 1)..Len(Matches')
              start   == _starting_round_id(_draw_size_from_num_entries(NumEntries(DrawPlayers)))
          IN  /\ created # {}
              /\ \A k \in created :
                    LET row == Matches'[k] IN
                    /\ (row.round_id = start
                        /\ (row.player1_id = None) # (row.player2_id = None)) =>
                          \E n \in created :
                              /\ Matches'[n].round_id = start + 1
                              /\ 2 * Matches'[n].match_number \in {row.match_number, row.match_number + 1}
                              /\ IF row.match_number % 2 = 1
                                 THEN Matches'[n].player1_id \in {row.player1_id, row.player2_id} \ {None}
                                 ELSE Matches'[n].player2_id \in {row.player1_id, row.player2_id} \ {None}
                    /\ row.round_id >= start + 2 =>
                          (row.player1_id = None /\ row.player2_id = None)]_vars

\* C6 witness: positions 2 and 4 are empty, so both feeders of the first second-round match
\* are byes; both lone players sit in that match and the final is still empty.
C6_Witness ==
    /\ last.op = "create_match_skeleton"
    /\ last.outcome = "ok"
    /\ DrawPlayers[2] = None
    /\ DrawPlayers[4] = None
    /\ Matches[5].player1_id = DrawPlayers[1]
    /\ Matches[5].player2_id = DrawPlayers[3]
    /\ Matches[7].player1_id = None
    /\ Matches[7].player2_id = None

(***************************************************************************)
(* Draw generation: scripts/generation/generate_draw_players.py            *)
(*                                                                         *)
(* The returned list is kept as a bag of rows (its order is not modelled). *)
(* random.shuffle followed by slicing or pop(0) is modelled as drawing any *)
(* element that is still in the list each time one is taken.               *)
(***************************************************************************)
MaxEntrants == 5
MaxDrawSize == 8

MIN_DRAW_SIZE == 6

\* seeds_for_draw_size(draw_size); it raises for draw_size < 6
seeds_for_draw_size(draw_size) ==
    IF draw_size <= 8 THEN 2
    ELSE IF draw_size <= 16 THEN 4
    ELSE IF draw_size <= 32 THEN 8
    ELSE 16

\* Seed counts allowed for a draw size
SeedCounts(draw_size) ==
    IF draw_size < MIN_DRAW_SIZE THEN {0} ELSE 0..seeds_for_draw_size(draw_size)

\* Entry records: entry_points tie in pairs of player ids
EntryPoints(pid) == 10 * ((pid + 1) \div 2)
Entry(pid) == [player_id |-> pid, entry_points |-> EntryPoints(pid)]
EntriesInput(n) == [i \in 1..n |-> Entry(n + 1 - i)]

WithdrawnPlayer == 3
WithdrawnArgs == {None, WithdrawnPlayer}

\* rule = seeding_rules[0] if seeding_rules else {}; max_players = None for a missing key
RuleDrawSizes == {None} \cup 1..MaxDrawSize

Take(seq, k) == SubSeq(seq, 1, Min(k, Len(seq)))

RECURSIVE FallbackPositions(_, _, _, _, _)
FallbackPositions(positions, pos, step, num_seeds, draw_size) ==
    IF Len(positions) < num_seeds /\ pos < draw_size
    THEN FallbackPositions(Append(positions, pos), pos + step, step, num_seeds, draw_size)
    ELSE positions

get_standard_seeding_positions(draw_size, num_seeds) ==
    IF num_seeds <= 0 THEN << >>
    ELSE IF num_seeds = 2 THEN Take(<<1, draw_size>>, num_seeds)
    ELSE IF num_seeds = 4
         THEN Take(<<1, draw_size, 1 + draw_size \div 4, draw_size - draw_size \div 4>>, num_seeds)
    ELSE IF num_seeds = 8
         THEN Take(<<1, draw_size, 1 + draw_size \div 4, draw_size - draw_size \div 4,
                     1 + draw_size \div 8, draw_size - draw_size \div 8,
                     1 + (3 * draw_size) \div 8, draw_size - (3 * draw_size) \div 8>>, num_seeds)
    ELSE LET step == Max(1, draw_size \div Max(1, num_seeds))
         IN  Take(FallbackPositions(<<1, draw_size>>, 1 + step, step, num_seeds, draw_size),
                  num_seeds)

\* _entry_sort_key: (-entry_points, player_id)
_entry_sort_key_less(a, b) ==
    \/ a.entry_points > b.entry_points
    \/ a.entry_points = b.entry_points /\ a.player_id < b.player_id

RECURSIVE InsertSorted(_, _)
InsertSorted(sorted, e) ==
    IF sorted = << >> THEN <<e>>
    ELSE IF _entry_sort_key_less(e, Head(sorted)) THEN <<e>> \o sorted
    ELSE <<Head(sorted)>> \o InsertSorted(Tail(sorted), e)

RECURSIVE sorted_entries(_)
sorted_entries(entries) ==
    IF entries = << >> THEN << >>
    ELSE InsertSorted(sorted_entries(Tail(entries)), Head(entries))

\* _seeded_player_ids_in_order with chosen_seed_assignments = None
_seeded_player_ids_in_order(sorted, num_seeds) ==
    IF num_seeds <= 0 THEN << >>
    ELSE [i \in 1..Min(num_seeds, Len(sorted)) |-> sorted[i].player_id]

\* all_pairs = [(i, i + 1) for i in range(1, draw_size + 1, 2)], indexed from 0
AllPairIndices(draw_size) == 0..((draw_size + 1) \div 2 - 1)
PairPositions(pair_idx) == {2 * pair_idx + 1, 2 * pair_idx + 2}
PairIndexOf(pos) == (pos - 1) \div 2
\* pair[1] if pos == pair[0] else pair[0]
OpponentPosition(pos) == IF pos = 2 * PairIndexOf(pos) + 1 THEN pos + 1 ELSE pos - 1

DrawPlayerRow(pid, pos, has_bye) ==
    [player_id |-> pid, draw_position |-> pos, has_bye |-> has_bye]

\* bye_seeded_count = min(num_byes, len(seeded_player_ids))
ByeSeededCount_unseeded_first(num_byes, seeded_player_ids) == 0

ByeSeededCount(num_byes, seeded_player_ids) == Min(num_byes, Len(seeded_player_ids))

\* Lines 167-263: everything generate_draw_players computes before the shuffled lists are
\* consumed
DrawSetup(entries_in, withdrawn_player_id, rule) ==
    LET entries      == IF withdrawn_player_id # None
                        THEN SelectSeq(entries_in, LAMBDA e : e.player_id # withdrawn_player_id)
                        ELSE entries_in
        num_entries  == Len(entries)
        draw_size    == IF rule.max_players = None THEN num_entries ELSE rule.max_players
        num_seeds    == rule.num_seeds
        num_byes     == draw_size - num_entries
        sorted       == sorted_entries(entries)
        seeding_positions == IF num_seeds > 0
                             THEN get_standard_seeding_positions(draw_size, num_seeds)
                             ELSE << >>
        seeded_player_ids == _seeded_player_ids_in_order(sorted, num_seeds)
        seeded_set   == {seeded_player_ids[i] : i \in DOMAIN seeded_player_ids}
        seed_pair_indices == {PairIndexOf(seeding_positions[i]) : i \in DOMAIN seeded_player_ids}
        bye_seeded_count  == ByeSeededCount(num_byes, seeded_player_ids)
        remaining_byes    == num_byes - bye_seeded_count
        unseeded     == {sorted[i].player_id : i \in DOMAIN sorted} \ seeded_set
    IN  [entries      |-> entries,
         num_entries  |-> num_entries,
         draw_size    |-> draw_size,
         entrants     |-> {entries[i].player_id : i \in DOMAIN entries},
         seeded_rows  |-> [i \in DOMAIN seeded_player_ids |->
                             DrawPlayerRow(seeded_player_ids[i], seeding_positions[i],
                                           i <= bye_seeded_count)],
         seed_opponent_positions |->
             {OpponentPosition(seeding_positions[i]) :
                 i \in {j \in DOMAIN seeded_player_ids : j > bye_seeded_count}},
         available_pairs |-> AllPairIndices(draw_size) \ seed_pair_indices,
         unseeded     |-> unseeded,
         unseeded_bye_count |-> Min(remaining_byes, Cardinality(unseeded))]

RECURSIVE SeqToBag(_)
SeqToBag(seq) ==
    IF seq = << >> THEN EmptyBag ELSE SetToBag({Head(seq)}) (+) SeqToBag(Tail(seq))

\* no_bye_positions = seed_opponent_positions + positions of the pairs left in available_pairs
NoByePositions(seed_opponent_positions, available_pairs) ==
    seed_opponent_positions \cup UNION {PairPositions(i) : i \in available_pairs}

DrawInput(entries_in, withdrawn_player_id, rule) ==
    [phase |-> "input", outcome |-> "none", entries |-> entries_in,
     withdrawn_player_id |-> withdrawn_player_id, rule |-> rule,
     draw_size |-> None, num_entries |-> None, entrants |-> {}, rows |-> EmptyBag,
     unseeded |-> {}, byes_left |-> 0, available_pairs |-> {},
     seed_opponent_positions |-> {}, no_bye_positions |-> {}]

\* Where the generator stands once byes_left bye entries and the entries of unseeded remain
DrawProgress(d) ==
    IF d.unseeded = {} THEN [d EXCEPT !.phase = "done", !.outcome = "ok"]
    ELSE IF d.byes_left > 0 THEN [d EXCEPT !.phase = "unseeded_bye"]
    ELSE [d EXCEPT !.phase = "unseeded_no_bye",
                   !.no_bye_positions =
                       IF d.phase = "unseeded_no_bye" THEN d.no_bye_positions
                       ELSE NoByePositions(d.seed_opponent_positions, d.available_pairs)]

InitDraw ==
    /\ km = Idle
    /\ ds = Idle
    /\ tx = Idle
    /\ sd = Idle
    /\ Matches = Idle
    /\ PlayerSuspensions = Idle
    /\ Players = Idle
    /\ DrawPlayers = Idle
    /\ last = Idle
    /\ calls = Idle
    /\ sg = Idle
    /\ ph = Idle
    /\ wr = Idle
    /\ vm = Idle
    /\ \E n \in 0..MaxEntrants, w \in WithdrawnArgs, max_players \in RuleDrawSizes :
          LET N == Len(DrawSetup(EntriesInput(n), w, [max_players |-> max_players,
                                                      num_seeds |-> 0]).entries)
              D == IF max_players = None THEN N ELSE max_players
          IN  \E num_seeds \in SeedCounts(D) :
                 dp = DrawInput(EntriesInput(n), w,
                                [max_players |-> max_players, num_seeds |-> num_seeds])

\* generate_draw_players up to the placement of the seeded players (lines 167-284)
GenerateDrawPlayers ==
    /\ dp.phase = "input"
    /\ LET s == DrawSetup(dp.entries, dp.withdrawn_player_id, dp.rule)
           d == [dp EXCEPT !.entries = s.entries, !.num_entries = s.num_entries,
                           !.draw_size = s.draw_size, !.entrants = s.entrants]
       IN  IF s.num_entries = 0
           THEN dp' = [d EXCEPT !.phase = "done", !.outcome = "empty"]
           ELSE IF s.draw_size < s.num_entries
           THEN dp' = [d EXCEPT !.phase = "done", !.outcome = "value_error"]
           ELSE dp' = DrawProgress([d EXCEPT !.rows = SeqToBag(s.seeded_rows),
                                             !.unseeded = s.unseeded,
                                             !.byes_left = s.unseeded_bye_count,
                                             !.available_pairs = s.available_pairs,
                                             !.seed_opponent_positions = s.seed_opponent_positions])
    /\ UNCHANGED <<matchVars, sg, ph, wr, vm, sd, tx, ds, km>>

\* 2. Unseeded players WITH byes (lines 286-290)
PlaceUnseededBye ==
    /\ dp.phase = "unseeded_bye"
    /\ IF dp.available_pairs = {}
       THEN dp' = [dp EXCEPT !.phase = "done", !.outcome = "index_error"]
       ELSE \E pid \in dp.unseeded, pair_idx \in dp.available_pairs :
               dp' = DrawProgress([dp EXCEPT
                        !.rows = @ (+) SetToBag({DrawPlayerRow(pid, 2 * pair_idx + 1, TRUE)}),
                        !.unseeded = @ \ {pid},
                        !.byes_left = @ - 1,
                        !.available_pairs = @ \ {pair_idx}])
    /\ UNCHANGED <<matchVars, sg, ph, wr, vm, sd, tx, ds, km>>

\* 3. Unseeded players WITHOUT byes (lines 292-297)
PlaceUnseededNoBye ==
    /\ dp.phase = "unseeded_no_bye"
    /\ IF dp.no_bye_positions = {}
       THEN dp' = [dp EXCEPT !.phase = "done", !.outcome = "index_error"]
       ELSE \E pid \in dp.unseeded, pos \in dp.no_bye_positions :
               dp' = DrawProgress([dp EXCEPT
                        !.rows = @ (+) SetToBag({DrawPlayerRow(pid, pos, FALSE)}),
                        !.unseeded = @ \ {pid},
                        !.no_bye_positions = @ \ {pos}])
    /\ UNCHANGED <<matchVars, sg, ph, wr, vm, sd, tx, ds, km>>

NextDraw == GenerateDrawPlayers \/ PlaceUnseededBye \/ PlaceUnseededNoBye

SpecDraw == InitDraw /\ [][NextDraw]_vars

(***************************************************************************)
(* Properties of the draw generator                                        *)
(***************************************************************************)
DrawReturned == dp.phase = "done" /\ dp.outcome = "ok"

RowSet == BagToSet(dp.rows)

RowsOfPlayer(pid) == {r \in RowSet : r.player_id = pid}

RowsAtPosition(pos) == {r \in RowSet : r.draw_position = pos}

OneRowPerEntrant ==
    /\ BagCardinality(dp.rows) = dp.num_entries
    /\ \A pid \in dp.entrants :
          /\ Cardinality(RowsOfPlayer(pid)) = 1
          /\ \A r \in RowsOfPlayer(pid) : CopiesIn(r, dp.rows) = 1

PositionsDistinctInDraw ==
    \A r \in RowSet :
        /\ r.draw_position \in 1..dp.draw_size
        /\ RowsAtPosition(r.draw_position) = {r}

ByeFlagMatchesEmptyOpponent ==
    \A r \in RowSet : r.has_bye <=> (RowsAtPosition(OpponentPosition(r.draw_position)) = {})

NumByeRows == Cardinality({r \in RowSet : r.has_bye})

\* C7: for every draw size D, entrant count N <= D (withdrawn player removed) and allowed seed
\* count, the returned rows hold exactly one row per entrant and their draw_position values
\* are pairwise distinct and lie in 1..D.
C7_OneRowPerEntrantAtDistinctPositions ==
    DrawReturned => (OneRowPerEntrant /\ PositionsDistinctInDraw)

\* Seed order among the entrants: rank by (-entry_points, player_id)
SeedRank(pid) ==
    1 + Cardinality({i \in DOMAIN dp.entries :
                        _entry_sort_key_less(dp.entries[i], Entry(pid))})

IsSeeded(pid) == SeedRank(pid) <= dp.rule.num_seeds

\* Byes go to seeded players first, in seed order, and only then to unseeded entrants
SeedsTakeByesFirst ==
    \A r1, r2 \in RowSet :
        (/\ r2.has_bye
         /\ IsSeeded(r1.player_id)
         /\ (~IsSeeded(r2.player_id) \/ SeedRank(r1.player_id) < SeedRank(r2.player_id)))
        => r1.has_bye

\* C8 as stated: for every D and N <= D the number of rows with has_bye = true is D - N
C8_ByeRowsEqualDrawSizeMinusEntrants ==
    DrawReturned => NumByeRows = dp.draw_size - dp.num_entries

\* C8 amended: the number of rows with has_bye = true is D - N whenever N <= D <= 2N, and is N
\* (every row) when D > 2N; seeded players take byes first in seed order, the rest go to
\* unseeded entrants.
C8_ByeRowsEqualByesUpToEntrants ==
    DrawReturned =>
        /\ NumByeRows = Min(dp.draw_size - dp.num_entries, dp.num_entries)
        /\ SeedsTakeByesFirst

\* C8 witness: 5 entrants in an 8-draw with 2 seeds: both seeds and one unseeded entrant
\* carry the three byes
C8_Witness ==
    /\ DrawReturned
    /\ dp.draw_size = 8
    /\ dp.num_entries = 5
    /\ dp.rule.num_seeds = 2
    /\ NumByeRows = 3
    /\ \E r \in RowSet : r.has_bye /\ ~IsSeeded(r.player_id)
    /\ \A r \in RowSet : IsSeeded(r.player_id) => r.has_bye

\* C9: in the returned rows, for every random outcome, a row has has_bye = true exactly when
\* the other position of its first-round pair (2i-1, 2i) has no row.
C9_ByeFlagIffOpponentSlotEmpty ==
    DrawReturned => ByeFlagMatchesEmptyOpponent

(***************************************************************************)
(* Score generation: src/modules/score_generator.py with the score tables  *)
(* of src/modules/rules_engine.py                                          *)
(*                                                                         *)
(* A sampler is the set of values it can return: every key of a weight     *)
(* table has a positive weight, and a resampling loop returns any value    *)
(* that passes its exit test.                                              *)
(***************************************************************************)
\* NORMAL_SET_SCORES without "RET", parsed by _parse_pair
_normal_set_weights_excluding_ret ==
    {<<6, 3>>, <<6, 4>>, <<7, 5>>, <<6, 2>>, <<6, 1>>, <<6, 0>>}

TIEBREAK_NORMAL_SCORES == {<<7, 4>>, <<7, 3>>, <<7, 5>>, <<7, 2>>, <<7, 1>>, <<7, 0>>}

TIEBREAK_DEUCE_SCORES ==
    {<<8, 6>>, <<9, 7>>, <<10, 8>>, <<11, 9>>, <<12, 10>>, <<13, 11>>, <<14, 12>>, <<15, 13>>}

SUPER_TIEBREAK_NORMAL_SCORES ==
    {<<10, 7>>, <<10, 6>>, <<10, 8>>, <<10, 5>>, <<10, 4>>, <<10, 3>>, <<10, 2>>, <<10, 1>>,
     <<10, 0>>}

SUPER_TIEBREAK_DEUCE_SCORES ==
    {<<11, 9>>, <<12, 10>>, <<13, 11>>, <<14, 12>>, <<15, 13>>, <<16, 14>>, <<17, 15>>,
     <<18, 16>>}

sample_tiebreak_score == TIEBREAK_NORMAL_SCORES \cup TIEBREAK_DEUCE_SCORES

sample_super_tiebreak_score == SUPER_TIEBREAK_NORMAL_SCORES \cup SUPER_TIEBREAK_DEUCE_SCORES

_winner_slot_from_games(g1, g2) == IF g1 > g2 THEN 1 ELSE 2

\* <<g1, g2, tb1, tb2>> of a normal set: no tie-break fields
_sample_completed_normal_set ==
    {<<p[1], p[2], None, None>> : p \in _normal_set_weights_excluding_ret}

\* player1 wins 7-6 with the sampled points, or player2 wins 6-7 with the points swapped
_sample_completed_tiebreak_set ==
    {<<7, 6, tb[1], tb[2]>> : tb \in sample_tiebreak_score}
        \cup {<<6, 7, tb[2], tb[1]>> : tb \in sample_tiebreak_score}

\* _fill_completed_set: is_set_tiebreak decides between the two samplers
_fill_completed_set == _sample_completed_tiebreak_set \cup _sample_completed_normal_set

_is_finished_set_score(g1, g2) ==
    <<g1, g2>> \in {<<6, 0>>, <<6, 1>>, <<6, 2>>, <<6, 3>>, <<6, 4>>,
                    <<0, 6>>, <<1, 6>>, <<2, 6>>, <<3, 6>>, <<4, 6>>,
                    <<7, 5>>, <<5, 7>>, <<7, 6>>, <<6, 7>>}

_sample_partial_set_score_any ==
    {<<g1, g2, None, None>> : g1 \in 0..6, g2 \in 0..6}

_sample_partial_set_score ==
    {<<p[1], p[2], None, None>> :
        p \in {q \in (0..6) \X (0..6) :
                  /\ q[1] # q[2]
                  /\ ~(q[1] = 6 /\ q[2] = 6)
                  /\ ~_is_finished_set_score(q[1], q[2])}}

_sample_partial_tiebreak_points ==
    {q \in (0..12) \X (0..12) :
        /\ q[1] # q[2]
        /\ ~(Max(q[1], q[2]) >= 7 /\ Abs(q[1] - q[2]) >= 2)}

_sample_partial_supertiebreak_points ==
    {q \in (0..18) \X (0..18) :
        /\ q[1] # q[2]
        /\ ~(Max(q[1], q[2]) >= 10 /\ Abs(q[1] - q[2]) >= 2)}

\* _non_zero_partial_games: _sample_partial_set_score without 0-0
_non_zero_partial_games ==
    {p \in _sample_partial_set_score : ~(p[1] = 0 /\ p[2] = 0)}

\* 6-6 with partial tie-break points
TiebreakInProgress == {<<6, 6, tb[1], tb[2]>> : tb \in _sample_partial_tiebreak_points}

\* score[f"set{set_no}_..."] = ... for the four fields of a set
WithSet(score, set_no, s) ==
    IF set_no = 1
    THEN [score EXCEPT !.set1_player1 = s[1], !.set1_player2 = s[2],
                       !.set1_tiebreak_player1 = s[3], !.set1_tiebreak_player2 = s[4]]
    ELSE IF set_no = 2
    THEN [score EXCEPT !.set2_player1 = s[1], !.set2_player2 = s[2],
                       !.set2_tiebreak_player1 = s[3], !.set2_tiebreak_player2 = s[4]]
    ELSE [score EXCEPT !.set3_player1 = s[1], !.set3_player2 = s[2],
                       !.set3_tiebreak_player1 = s[3], !.set3_tiebreak_player2 = s[4]]

WithSuperTiebreak(score, p) ==
    [score EXCEPT !.set3_supertiebreak_player1 = p[1], !.set3_supertiebreak_player2 = p[2]]

\* Winner slot of the set in progress: by tie-break points at 6-6, by games otherwise
InProgressWinner(s) ==
    IF s[3] # None THEN _winner_slot_from_games(s[3], s[4])
    ELSE _winner_slot_from_games(s[1], s[2])

\* Two completed sets won by different players (exit test of the "while True" loops)
SplitSets == {p \in _fill_completed_set \X _fill_completed_set :
                 _winner_slot_from_games(p[1][1], p[1][2])
                     # _winner_slot_from_games(p[2][1], p[2][2])}

\* sampled_score / sampled_winner_slot keep what _generate_score_and_winner returned, before
\* generate_knockout_matches reassigns score_fields and winner_slot
\* generate_matches.py: k[:-8] + '_player1' / '_player2'
ScoreFieldKey(prefix, slot) ==
    CASE prefix = "set1" -> IF slot = 1 THEN "set1_player1" ELSE "set1_player2"
      [] prefix = "set1_tiebreak" -> IF slot = 1 THEN "set1_tiebreak_player1" ELSE "set1_tiebreak_player2"
      [] prefix = "set2" -> IF slot = 1 THEN "set2_player1" ELSE "set2_player2"
      [] prefix = "set2_tiebreak" -> IF slot = 1 THEN "set2_tiebreak_player1" ELSE "set2_tiebreak_player2"
      [] prefix = "set3" -> IF slot = 1 THEN "set3_player1" ELSE "set3_player2"
      [] prefix = "set3_tiebreak" -> IF slot = 1 THEN "set3_tiebreak_player1" ELSE "set3_tiebreak_player2"
      [] prefix = "set3_supertiebreak" -> IF slot = 1 THEN "set3_supertiebreak_player1"
                                          ELSE "set3_supertiebreak_player2"

\* <<k[:-8], slot>> of key k
ScoreFieldParts(k) ==
    CASE k = "set1_player1" -> <<"set1", 1>>
      [] k = "set1_player2" -> <<"set1", 2>>
      [] k = "set1_tiebreak_player1" -> <<"set1_tiebreak", 1>>
      [] k = "set1_tiebreak_player2" -> <<"set1_tiebreak", 2>>
      [] k = "set2_player1" -> <<"set2", 1>>
      [] k = "set2_player2" -> <<"set2", 2>>
      [] k = "set2_tiebreak_player1" -> <<"set2_tiebreak", 1>>
      [] k = "set2_tiebreak_player2" -> <<"set2_tiebreak", 2>>
      [] k = "set3_player1" -> <<"set3", 1>>
      [] k = "set3_player2" -> <<"set3", 2>>
      [] k = "set3_tiebreak_player1" -> <<"set3_tiebreak", 1>>
      [] k = "set3_tiebreak_player2" -> <<"set3_tiebreak", 2>>
      [] k = "set3_supertiebreak_player1" -> <<"set3_supertiebreak", 1>>
      [] k = "set3_supertiebreak_player2" -> <<"set3_supertiebreak", 2>>

DictGet(dict, k) == IF k \in DOMAIN dict THEN dict[k] ELSE None

\* Mutant: only the game fields are exchanged, tie-break and super tie-break points stay
_swap_score_fields_games_only(score_fields) ==
    [k \in DOMAIN score_fields |->
        LET part == ScoreFieldParts(k)
        IN  IF part[1] \notin {"set1", "set2", "set3"} THEN score_fields[k]
            ELSE IF part[2] = 1 THEN DictGet(score_fields, ScoreFieldKey(part[1], 2))
            ELSE DictGet(score_fields, ScoreFieldKey(part[1], 1))]

_swap_score_fields(score_fields) ==
    [k \in DOMAIN score_fields |->
        LET part == ScoreFieldParts(k)
        IN  IF part[2] = 1 THEN DictGet(score_fields, ScoreFieldKey(part[1], 2))
            ELSE DictGet(score_fields, ScoreFieldKey(part[1], 1))]

max_attempts == 50

ScoreRequest(has_supertiebreak) ==
    [phase |-> "request", has_supertiebreak |-> has_supertiebreak, status |-> None,
     score |-> _blank_score_fields, winner_slot |-> None,
     sampled_score |-> _blank_score_fields, sampled_winner_slot |-> None,
     is_valid |-> FALSE, attempts |-> 0]

GeneratedMatch(status, score, winner_slot) ==
    sg' = [sg EXCEPT !.phase = "returned", !.status = status, !.score = score,
                     !.winner_slot = winner_slot]

generate_completed_match(has_supertiebreak) ==
    \E s1 \in _fill_completed_set, s2 \in _fill_completed_set :
        LET score == WithSet(WithSet(_blank_score_fields, 1, s1), 2, s2)
            w1    == _winner_slot_from_games(s1[1], s1[2])
            w2    == _winner_slot_from_games(s2[1], s2[2])
        IN  IF w1 = w2
            THEN GeneratedMatch(STATUS_COMPLETED, score, w1)
            ELSE IF has_supertiebreak
            THEN \E stb \in sample_super_tiebreak_score :
                    GeneratedMatch(STATUS_COMPLETED, WithSuperTiebreak(score, stb),
                                   _winner_slot_from_games(stb[1], stb[2]))
            ELSE \E s3 \in _fill_completed_set :
                    GeneratedMatch(STATUS_COMPLETED, WithSet(score, 3, s3),
                                   _winner_slot_from_games(s3[1], s3[2]))

generate_retired_match(has_supertiebreak) ==
    \E retire_set \in 1..3 :
        IF retire_set = 1
        THEN \E s \in TiebreakInProgress \cup _sample_partial_set_score :
                GeneratedMatch(STATUS_RETIRED, WithSet(_blank_score_fields, 1, s),
                               InProgressWinner(s))
        ELSE IF retire_set = 2
        THEN \E s1 \in _fill_completed_set,
                s \in TiebreakInProgress \cup _sample_partial_set_score :
                GeneratedMatch(STATUS_RETIRED,
                               WithSet(WithSet(_blank_score_fields, 1, s1), 2, s),
                               InProgressWinner(s))
        ELSE \E p \in SplitSets :
                LET score == WithSet(WithSet(_blank_score_fields, 1, p[1]), 2, p[2])
                IN  IF has_supertiebreak
                    THEN \E stb \in _sample_partial_supertiebreak_points :
                            GeneratedMatch(STATUS_RETIRED, WithSuperTiebreak(score, stb),
                                           _winner_slot_from_games(stb[1], stb[2]))
                    ELSE \E s \in TiebreakInProgress \cup _sample_partial_set_score :
                            GeneratedMatch(STATUS_RETIRED, WithSet(score, 3, s),
                                           InProgressWinner(s))

generate_disqualified_match(has_supertiebreak) ==
    \E dq_set \in 1..3 :
        IF dq_set = 1
        THEN \E s \in TiebreakInProgress \cup _non_zero_partial_games :
                GeneratedMatch(STATUS_DISQUALIFIED, WithSet(_blank_score_fields, 1, s),
                               InProgressWinner(s))
        ELSE IF dq_set = 2
        THEN \E s1 \in _fill_completed_set,
                s \in TiebreakInProgress \cup _non_zero_partial_games :
                GeneratedMatch(STATUS_DISQUALIFIED,
                               WithSet(WithSet(_blank_score_fields, 1, s1), 2, s),
                               InProgressWinner(s))
        ELSE \E p \in SplitSets :
                LET score == WithSet(WithSet(_blank_score_fields, 1, p[1]), 2, p[2])
                IN  \/ /\ has_supertiebreak
                       /\ \E stb \in _sample_partial_supertiebreak_points :
                             LET p1 == IF stb[1] = 0 /\ stb[2] = 0 THEN 1 ELSE stb[1]
                             IN  GeneratedMatch(STATUS_DISQUALIFIED,
                                                WithSuperTiebreak(score, <<p1, stb[2]>>),
                                                _winner_slot_from_games(p1, stb[2]))
                    \/ \E s \in TiebreakInProgress \cup _non_zero_partial_games :
                          GeneratedMatch(STATUS_DISQUALIFIED, WithSet(score, 3, s),
                                         InProgressWinner(s))

InitScore ==
    /\ km = Idle
    /\ ds = Idle
    /\ tx = Idle
    /\ sd = Idle
    /\ Matches = Idle
    /\ PlayerSuspensions = Idle
    /\ Players = Idle
    /\ DrawPlayers = Idle
    /\ last = Idle
    /\ calls = Idle
    /\ dp = Idle
    /\ ph = Idle
    /\ wr = Idle
    /\ vm = Idle
    /\ \E has_supertiebreak \in BOOLEAN : sg = ScoreRequest(has_supertiebreak)

GenerateCompletedMatch ==
    /\ sg.phase = "request"
    /\ generate_completed_match(sg.has_supertiebreak)
    /\ UNCHANGED <<matchVars, dp, ph, wr, vm, sd, tx, ds, km>>

GenerateRetiredMatch ==
    /\ sg.phase = "request"
    /\ generate_retired_match(sg.has_supertiebreak)
    /\ UNCHANGED <<matchVars, dp, ph, wr, vm, sd, tx, ds, km>>

GenerateDisqualifiedMatch ==
    /\ sg.phase = "request"
    /\ generate_disqualified_match(sg.has_supertiebreak)
    /\ UNCHANGED <<matchVars, dp, ph, wr, vm, sd, tx, ds, km>>

\* generate_knockout_matches, lines 377-397: force the winner picked by the ranking rule by
\* swapping the score fields, validate, and sample again while the score is invalid
ForceWinner ==
    /\ sg.phase = "returned"
    /\ \E desired_winner_slot \in {1, 2} :
          LET score_fields == IF sg.winner_slot # desired_winner_slot
                              THEN _swap_score_fields(sg.score) ELSE sg.score
              is_valid     == validate_match(score_fields, sg.status)
          IN  sg' = [sg EXCEPT !.phase = IF ~is_valid /\ sg.attempts < max_attempts
                                         THEN "request" ELSE "forced",
                               !.attempts = IF ~is_valid /\ sg.attempts < max_attempts
                                            THEN sg.attempts + 1 ELSE sg.attempts,
                               !.score = score_fields,
                               !.winner_slot = desired_winner_slot,
                               !.sampled_score = sg.score,
                               !.sampled_winner_slot = sg.winner_slot,
                               !.is_valid = is_valid]
    /\ UNCHANGED <<matchVars, dp, ph, wr, vm, sd, tx, ds, km>>

NextScore ==
    GenerateCompletedMatch \/ GenerateRetiredMatch \/ GenerateDisqualifiedMatch \/ ForceWinner

SpecScore == InitScore /\ [][NextScore]_vars

(***************************************************************************)
(* Properties of the score generator                                       *)
(***************************************************************************)
\* C10: for every outcome of the random source and both values of has_supertiebreak, the
\* score fields returned by generate_completed_match, generate_retired_match and
\* generate_disqualified_match are accepted by validate_match with status Completed, Retired
\* and Disqualified respectively.
C10_GeneratedScoresAcceptedByValidator ==
    sg.phase = "returned" => validate_match(sg.score, sg.status)

\* C10 witness: a disqualification during the set 3 super tie-break after split sets, the
\* second of them a 6-7 tie-break set
C10_Witness ==
    /\ sg.phase = "returned"
    /\ sg.status = STATUS_DISQUALIFIED
    /\ sg.has_supertiebreak
    /\ sg.score.set2_player1 = 6
    /\ sg.score.set2_player2 = 7
    /\ sg.score.set3_supertiebreak_player1 = 10
    /\ sg.score.set3_supertiebreak_player2 = 9
    /\ validate_match(sg.score, STATUS_DISQUALIFIED)

(***************************************************************************)
(* Points history  (src/modules/calculate_points_history.py)               *)
(***************************************************************************)
STATUS_WALKOVER_NOSHOW == 3

STAGE_WINNER          == 1
STAGE_FINALIST        == 2
STAGE_SEMI_FINALIST   == 3
STAGE_QUARTER_FINALIST == 4
STAGE_LAST_16         == 5
STAGE_LAST_32         == 6
STAGE_LAST_64         == 7

StageResultIds == STAGE_WINNER..STAGE_LAST_64

\* [m for m in matches if m.get("draw_id") == draw_id]
DrawMatches(draw_id, matches) == SelectSeq(matches, LAMBDA m : m.draw_id = draw_id)

SeqRange(s) == {s[k] : k \in DOMAIN s}

\* _build_round_ranks: distinct round_ids of the draw, ascending, ranked from 1
_build_round_ranks(draw_id, matches) ==
    LET round_ids == {m.round_id : m \in {r \in SeqRange(matches) :
                                             r.draw_id = draw_id /\ r.round_id # None}}
    IN  [rid \in round_ids |-> 1 + Cardinality({r \in round_ids : r < rid})]

\* _round_rank (lines 156-158): round_ranks.get(rid, 0), 0 for a null round_id
_round_rank(round_ranks, m) ==
    IF m.round_id # None /\ m.round_id \in DOMAIN round_ranks THEN round_ranks[m.round_id] ELSE 0

\* _stage_from_loss_round_rank: mapping.get(distance_from_final, STAGE_LAST_64)
_stage_from_loss_round_rank_by_rank(loss_round_rank, total_rounds) ==
    LET distance_from_final == loss_round_rank
    IN  CASE distance_from_final = 1 -> STAGE_SEMI_FINALIST
          [] distance_from_final = 2 -> STAGE_QUARTER_FINALIST
          [] distance_from_final = 3 -> STAGE_LAST_16
          [] distance_from_final = 4 -> STAGE_LAST_32
          [] distance_from_final = 5 -> STAGE_LAST_64
          [] OTHER                   -> STAGE_LAST_64

_stage_from_loss_round_rank(loss_round_rank, total_rounds) ==
    LET distance_from_final == total_rounds - loss_round_rank
    IN  CASE distance_from_final = 1 -> STAGE_SEMI_FINALIST
          [] distance_from_final = 2 -> STAGE_QUARTER_FINALIST
          [] distance_from_final = 3 -> STAGE_LAST_16
          [] distance_from_final = 4 -> STAGE_LAST_32
          [] distance_from_final = 5 -> STAGE_LAST_64
          [] OTHER                   -> STAGE_LAST_64

\* total_wins (line 132): matches of the player that the player won
total_wins_played(player_id, player_matches) ==
    Len(SelectSeq(player_matches, LAMBDA m : m.winner_id # None))

total_wins(player_id, player_matches) ==
    Len(SelectSeq(player_matches, LAMBDA m : m.winner_id = player_id))

SetMax(S) == CHOOSE x \in S : \A y \in S : y <= x

\* get_player_stage_from_matches: returns (stage_result_id, is_first_match_loss)
get_player_stage_from_matches(player_id, draw_id, matches) ==
    LET draw_matches == DrawMatches(draw_id, matches)
        round_ranks  == _build_round_ranks(draw_id, draw_matches)
        round_ids    == DOMAIN round_ranks
    IN  IF draw_matches = << >> \/ round_ids = {}
        THEN [stage_result_id |-> STAGE_LAST_64, is_first_match_loss |-> TRUE]
        ELSE
        LET total_rounds   == Cardinality(round_ids)
            final_round_id == SetMax(round_ids)
            player_matches == SelectSeq(draw_matches,
                                  LAMBDA m : m.player1_id = player_id \/ m.player2_id = player_id)
        IN  IF player_matches = << >>
            THEN [stage_result_id |-> STAGE_LAST_64, is_first_match_loss |-> TRUE]
            ELSE
            LET is_first_match_loss == (total_wins(player_id, player_matches) = 0)
                final_matches == SelectSeq(draw_matches, LAMBDA m : m.round_id = final_round_id)
                final_match   == final_matches[1]
                losses == SelectSeq(player_matches,
                              LAMBDA m : m.winner_id # None /\ m.winner_id # player_id)
                \* max(losses, key=_round_rank): only the rank of the maximum is used
                loss_round_rank == SetMax({_round_rank(round_ranks, m) : m \in SeqRange(losses)})
                reached_rank == SetMax({_round_rank(round_ranks, m) : m \in SeqRange(player_matches)})
                stage ==
                    IF final_matches # << >> /\ player_id = final_match.winner_id
                    THEN STAGE_WINNER
                    ELSE IF final_matches # << >>
                            /\ player_id \in {final_match.player1_id, final_match.player2_id}
                            /\ player_id # final_match.winner_id
                    THEN STAGE_FINALIST
                    ELSE IF losses # << >>
                    THEN _stage_from_loss_round_rank(loss_round_rank, total_rounds)
                    ELSE _stage_from_loss_round_rank(reached_rank, total_rounds)
            IN  [stage_result_id |-> stage, is_first_match_loss |-> is_first_match_loss]

\* _is_player_disqualified_in_draw (status 6 only; not called by calculate_points_history)
_is_player_disqualified_in_draw(player_id, draw_id, matches) ==
    \E m \in SeqRange(matches) :
        /\ m.draw_id = draw_id
        /\ m.match_status_id = STATUS_DISQUALIFIED
        /\ player_id \in {m.player1_id, m.player2_id}
        /\ player_id # m.winner_id

_is_player_zero_points_status_in_draw_disqualified_only(player_id, draw_id, matches) ==
    \E m \in SeqRange(matches) :
        /\ m.draw_id = draw_id
        /\ m.match_status_id = STATUS_DISQUALIFIED
        /\ player_id \in {m.player1_id, m.player2_id}
        /\ player_id # m.winner_id

\* _is_player_zero_points_status_in_draw: non-winning participant of a Walkover or Disqualified match
_is_player_zero_points_status_in_draw(player_id, draw_id, matches) ==
    \E m \in SeqRange(matches) :
        /\ m.draw_id = draw_id
        /\ m.match_status_id \in {STATUS_WALKOVER_NOSHOW, STATUS_DISQUALIFIED}
        /\ player_id \in {m.player1_id, m.player2_id}
        /\ player_id # m.winner_id

\* points_rules.get((category_id, stage_result_id), 0)
PointsRulesGet(points_rules, category_id, stage_result_id) ==
    IF <<category_id, stage_result_id>> \in DOMAIN points_rules
    THEN points_rules[<<category_id, stage_result_id>>] ELSE 0

\* calculate_points_history: one record per entry of player_ids, ids from next_ph_id upwards
\* (tournament_end_date and created_at are copied through and are left out of the record)
calculate_points_history(draw_id, tournament_id, age_category_id, category_id, points_rules, matches, player_ids, next_ph_id) ==
    [k \in DOMAIN player_ids |->
        LET player_id == player_ids[k]
            st == get_player_stage_from_matches(player_id, draw_id, matches)
            is_zero_points_status ==
                _is_player_zero_points_status_in_draw(player_id, draw_id, matches)
        IN  [id              |-> next_ph_id + k - 1,
             player_id       |-> player_id,
             tournament_id   |-> tournament_id,
             age_category_id |-> age_category_id,
             stage_result_id |-> st.stage_result_id,
             points_earned   |-> IF is_zero_points_status THEN 0
                                 ELSE IF st.is_first_match_loss THEN 0
                                 ELSE PointsRulesGet(points_rules, category_id,
                                                     st.stage_result_id)]]

\* ---- Inputs: the Matches rows of one draw after the tournament was played ----
PointsDrawSizes == {8, 16, 32, 64}
CategoryId    == 1
AgeCategoryId == 1

\* Draw positions left without a DrawPlayers row (their pair partner has a bye)
PointsByePositions(draw_size) == {{}, {2, draw_size}}

PointsDrawPlayers(draw_size, byes) ==
    [pos \in 1..draw_size |-> IF pos \in byes THEN None ELSE PlayerAt(pos)]

\* PointsRules rows: the full table of a category, a table with the early stages missing,
\* and a table of another category only
PointsRulesFull ==
    [key \in {CategoryId} \X StageResultIds |-> 10 * (8 - key[2])]
PointsRulesTopOnly ==
    [key \in {CategoryId} \X {STAGE_WINNER, STAGE_FINALIST} |-> 100 * (3 - key[2])]
PointsRulesTables == {PointsRulesFull, PointsRulesTopOnly}

\* A result that departs from "player1 wins, Completed": the row, the winning slot, the status
ResultStatuses == {STATUS_COMPLETED, STATUS_WALKOVER_NOSHOW, STATUS_RETIRED, STATUS_DISQUALIFIED}
NoSpecial == [match_id |-> 0, slot |-> 1, status |-> STATUS_COMPLETED]
SpecialResults(match_ids) ==
    {NoSpecial} \cup ([match_id : match_ids, slot : {1, 2}, status : ResultStatuses]
                         \ [match_id : match_ids, slot : {1}, status : {STATUS_COMPLETED}])

\* match_ids of the first, second and last match of every round before the final
RoundFirstId(draw_size, round_offset) ==
    draw_size - 2 * _matches_in_round(draw_size, round_offset) + 1
SpecialMatchIds(draw_size) ==
    {k \in 1..(draw_size - 2) :
        \E round_offset \in 0..5 :
            /\ _matches_in_round(draw_size, round_offset) >= 2
            /\ k - RoundFirstId(draw_size, round_offset)
                   \in {0, 1, _matches_in_round(draw_size, round_offset) - 1}}

\* Results entered row by row in match_id order: the row is updated and the winner advanced,
\* as apply_result_and_advance does; rows with an empty slot (byes) stay Scheduled.
RECURSIVE PlayMatches(_, _, _, _)
PlayMatches(table, k, upto, specials) ==
    IF k > upto THEN table
    ELSE LET m == table[k]
         IN  IF m.player1_id = None \/ m.player2_id = None
             THEN PlayMatches(table, k + 1, upto, specials)
             ELSE LET sp == IF \E s \in specials : s.match_id = k
                            THEN CHOOSE s \in specials : s.match_id = k
                            ELSE NoSpecial
                      winner_id == IF sp.slot = 1 THEN m.player1_id ELSE m.player2_id
                      updated == [table EXCEPT ![k].match_status_id = sp.status,
                                               ![k].winner_id = winner_id]
                  IN  PlayMatches(AdvanceWinner(updated, m.draw_id, m.round_id,
                                                m.match_number, winner_id) \o << >>,
                                  k + 1, upto, specials)

PlayedTable(draw_size, byes, upto, specials) ==
    LET pos_to_player  == PointsDrawPlayers(draw_size, byes)
        start_round_id == _starting_round_id(draw_size)
        inserted       == SkeletonRows(DrawId, pos_to_player, draw_size, 1, start_round_id, 0)
        bye_matches    == SelectSeq(inserted,
                                    LAMBDA row : IsByeMatch(row, DrawId, start_round_id))
    IN  PlayMatches(AdvanceByes(inserted, bye_matches, 1, DrawId, start_round_id),
                    1, upto, specials)

PointsInput(draw_size, byes, final_played, special, final_special, points_rules) ==
    LET final_id == draw_size - 1
        upto     == IF final_played THEN final_id ELSE final_id - 1
        specials == {special, [final_special EXCEPT !.match_id = final_id]}
        pos_to_player == PointsDrawPlayers(draw_size, byes)
        positions == SelectSeq([pos \in 1..draw_size |-> pos],
                               LAMBDA pos : pos_to_player[pos] # None)
    IN  [phase        |-> "input",
         draw_size    |-> draw_size,
         matches      |-> PlayedTable(draw_size, byes, upto, specials),
         player_ids   |-> [k \in DOMAIN positions |-> pos_to_player[positions[k]]],
         points_rules |-> points_rules,
         records      |-> << >>]

InitPoints ==
    /\ km = Idle
    /\ ds = Idle
    /\ tx = Idle
    /\ sd = Idle
    /\ Matches = Idle
    /\ PlayerSuspensions = Idle
    /\ Players = Idle
    /\ DrawPlayers = Idle
    /\ last = Idle
    /\ calls = Idle
    /\ dp = Idle
    /\ sg = Idle
    /\ wr = Idle
    /\ vm = Idle
    /\ \E draw_size \in PointsDrawSizes :
       \E byes \in PointsByePositions(draw_size), final_played \in BOOLEAN,
          special \in SpecialResults(SpecialMatchIds(draw_size)),
          points_rules \in PointsRulesTables :
       \E final_special \in IF final_played THEN SpecialResults({draw_size - 1})
                                            ELSE {NoSpecial} :
          ph = PointsInput(draw_size, byes, final_played, special, final_special, points_rules)

CalculatePointsHistory ==
    /\ ph.phase = "input"
    /\ ph' = [ph EXCEPT !.phase = "done",
                        !.records = calculate_points_history(
                                        DrawId, TournamentId, AgeCategoryId, CategoryId,
                                        ph.points_rules, ph.matches, ph.player_ids, 1)]
    /\ UNCHANGED <<matchVars, dp, sg, wr, vm, sd, tx, ds, km>>

NextPoints == CalculatePointsHistory

SpecPoints == InitPoints /\ [][NextPoints]_vars

\* ---- Points history properties ----
PointsDone == ph.phase = "done"
PointsRecords == SeqRange(ph.records)

WonMatches(player_id) ==
    {m \in SeqRange(ph.matches) : m.draw_id = DrawId /\ m.winner_id = player_id}

\* C11: a player who is the winner_id of no match of the draw gets points_earned = 0,
\* whatever stage was inferred and whatever the points table holds for that stage.
C11_NoWinNoPoints ==
    PointsDone =>
        \A r \in PointsRecords : WonMatches(r.player_id) = {} => r.points_earned = 0

\* A bye recipient who lost the first match actually played, was not sanctioned, and whose
\* inferred stage carries points in the table
C11_Witness ==
    /\ PointsDone
    /\ \E r \in PointsRecords :
          /\ WonMatches(r.player_id) = {}
          /\ r.points_earned = 0
          /\ PointsRulesGet(ph.points_rules, CategoryId, r.stage_result_id) > 0
          /\ r.stage_result_id # STAGE_LAST_64
          /\ ~_is_player_zero_points_status_in_draw(r.player_id, DrawId, ph.matches)

\* Walkover and Disqualified rows of the draw
SanctionMatches ==
    {m \in SeqRange(ph.matches) :
        m.draw_id = DrawId /\ m.match_status_id \in {STATUS_WALKOVER, STATUS_DISQUALIFIED}}
SanctionedLoser(player_id) ==
    \E m \in SanctionMatches : player_id \in {m.player1_id, m.player2_id} /\ m.winner_id # player_id
SanctionWinner(player_id) ==
    \E m \in SanctionMatches : player_id \in {m.player1_id, m.player2_id} /\ m.winner_id = player_id

\* C12: a participant who is not the winner of some Disqualified or Walkover match of the draw
\* gets points_earned = 0 whatever the stage and the number of wins; the winner of such a match
\* is not penalised by it: unless sanctioned in another match, the winner gets the points the
\* table holds for the inferred stage.
C12_SanctionedLoserGetsZeroWinnerKeepsPoints ==
    PointsDone =>
        \A r \in PointsRecords :
            /\ SanctionedLoser(r.player_id) => r.points_earned = 0
            /\ (SanctionWinner(r.player_id) /\ ~SanctionedLoser(r.player_id)) =>
                   r.points_earned =
                       PointsRulesGet(ph.points_rules, CategoryId, r.stage_result_id)

\* A sanctioned loser with earlier wins whose stage carries points, and in the same draw the
\* winner of a Walkover or Disqualified match who is paid for the stage reached
C12_Witness ==
    /\ PointsDone
    /\ \E r \in PointsRecords :
          /\ SanctionedLoser(r.player_id)
          /\ WonMatches(r.player_id) # {}
          /\ PointsRulesGet(ph.points_rules, CategoryId, r.stage_result_id) > 0
          /\ r.points_earned = 0
    /\ \E r \in PointsRecords :
          /\ SanctionWinner(r.player_id)
          /\ ~SanctionedLoser(r.player_id)
          /\ r.points_earned > 0
    /\ \E m \in SanctionMatches : m.match_status_id = STATUS_WALKOVER

\* Round ids of the draw ranked in ascending order, the highest rank being the final
DrawRoundIds == {m.round_id : m \in {r \in SeqRange(ph.matches) : r.draw_id = DrawId}}
RankOfRound(round_ids, round_id) == Cardinality({r \in round_ids : r <= round_id})
FinalRows(round_ids) ==
    {m \in SeqRange(ph.matches) :
        m.draw_id = DrawId /\ RankOfRound(round_ids, m.round_id) = Cardinality(round_ids)}
LossRows(player_id) ==
    {m \in SeqRange(ph.matches) :
        /\ m.draw_id = DrawId
        /\ player_id \in {m.player1_id, m.player2_id}
        /\ m.winner_id # None
        /\ m.winner_id # player_id}
HighestLossRank(round_ids, player_id) ==
    SetMax({RankOfRound(round_ids, m.round_id) : m \in LossRows(player_id)})
DistanceFromFinal(round_ids, player_id) ==
    Cardinality(round_ids) - HighestLossRank(round_ids, player_id)
StageOfDistance(distance_from_final) ==
    CASE distance_from_final = 1 -> STAGE_SEMI_FINALIST
      [] distance_from_final = 2 -> STAGE_QUARTER_FINALIST
      [] distance_from_final = 3 -> STAGE_LAST_16
      [] distance_from_final = 4 -> STAGE_LAST_32
      [] distance_from_final >= 5 -> STAGE_LAST_64

\* C15: the highest-ranked round of the draw is the final; its winner gets Winner, its other
\* participant Finalist, and every other player who lost a match gets the stage of the loss at
\* the highest round rank, with total_rounds - loss_rank mapped 1 -> Semifinalist,
\* 2 -> Quarterfinalist, 3 -> R16, 4 -> R32, 5 or more -> R64.
C15_StageFromFinalAndHighestLoss ==
    PointsDone =>
        LET round_ids == DrawRoundIds
            finals    == FinalRows(round_ids)
        IN  \A r \in PointsRecords : \A final \in finals :
                IF r.player_id = final.winner_id
                THEN r.stage_result_id = STAGE_WINNER
                ELSE IF r.player_id \in {final.player1_id, final.player2_id}
                THEN r.stage_result_id = STAGE_FINALIST
                ELSE LossRows(r.player_id) # {} =>
                         /\ DistanceFromFinal(round_ids, r.player_id) >= 1
                         /\ r.stage_result_id =
                                StageOfDistance(DistanceFromFinal(round_ids, r.player_id))

\* A played 64 draw: a winner, a finalist and a loser at every distance 1..5 from the final
C15_Witness ==
    /\ PointsDone
    /\ ph.draw_size = 64
    /\ LET round_ids == DrawRoundIds
           finals    == FinalRows(round_ids)
       IN  /\ Cardinality(finals) = 1
           /\ \A stage \in StageResultIds : \E r \in PointsRecords : r.stage_result_id = stage
           /\ \A distance \in 1..5 :
                 \E r \in PointsRecords :
                    /\ \A final \in finals :
                          r.player_id \notin {final.player1_id, final.player2_id}
                    /\ LossRows(r.player_id) # {}
                    /\ DistanceFromFinal(round_ids, r.player_id) = distance

(***************************************************************************)
(* Weekly ranking  (src/modules/calculate_weekly_ranking.py,               *)
(*                  src/modules/ranking_window.py)                         *)
(***************************************************************************)
\* datetime.date arithmetic on proleptic Gregorian ordinals (1 = 0001-01-01, a Monday)
_days_before_year(year) ==
    LET y == year - 1 IN y * 365 + (y \div 4) - (y \div 100) + (y \div 400)

_is_leap(year) == year % 4 = 0 /\ (year % 100 # 0 \/ year % 400 = 0)

\* Ordinal of the Monday of ISO week 1 of the year
_isoweek1monday(year) ==
    LET firstday     == _days_before_year(year) + 1
        firstweekday == (firstday + 6) % 7
        week1monday  == firstday - firstweekday
    IN  IF firstweekday > 3 THEN week1monday + 7 ELSE week1monday

\* date.fromisocalendar accepts week 53 only in a long year
IsLongIsoYear(year) ==
    LET first_weekday == (_days_before_year(year) + 1) % 7
    IN  first_weekday = 4 \/ (first_weekday = 3 /\ _is_leap(year))

ValidIsoWeek(year, week) == week \in 1..52 \/ (week = 53 /\ IsLongIsoYear(year))

IsoWeek(iso_year, iso_week) == [iso_year |-> iso_year, iso_week |-> iso_week]

\* iso_week_monday: date.fromisocalendar(iso_year, iso_week, 1)
iso_week_monday(iso_year, iso_week) == _isoweek1monday(iso_year) + (iso_week - 1) * 7

\* Calendar year of an ordinal
YearOfOrdinal(n) ==
    CHOOSE y \in (n \div 366)..((n \div 365) + 1) :
        _days_before_year(y) < n /\ n <= _days_before_year(y + 1)

\* iso_week_of: date.isocalendar()
iso_week_of(n) ==
    LET year == YearOfOrdinal(n)
        week == (n - _isoweek1monday(year)) \div 7
    IN  IF n - _isoweek1monday(year) < 0
        THEN IsoWeek(year - 1, ((n - _isoweek1monday(year - 1)) \div 7) + 1)
        ELSE IF week >= 52 /\ n >= _isoweek1monday(year + 1)
        THEN IsoWeek(year + 1, 1)
        ELSE IsoWeek(year, week + 1)

\* add_iso_weeks: Monday anchor, shifted by whole weeks, converted back
add_iso_weeks_same_week_number(iso_year, iso_week, weeks_delta) ==
    LET w == (iso_week - 1) + weeks_delta
    IN  IF w >= 0 THEN IsoWeek(iso_year + (w \div 52), (w % 52) + 1)
        ELSE IsoWeek(iso_year - ((51 - w) \div 52), (w % 52) + 1)

add_iso_weeks(iso_year, iso_week, weeks_delta) ==
    iso_week_of(iso_week_monday(iso_year, iso_week) + 7 * weeks_delta)

_iso_to_abs(w) == w.iso_year * 100 + w.iso_week

\* defaultdict(list) keyed by insertion order: append to the key's list, creating it at the end
AppendToKey(buckets, key, value) ==
    IF \E i \in DOMAIN buckets : buckets[i].key = key
    THEN [i \in DOMAIN buckets |->
             IF buckets[i].key = key
             THEN [buckets[i] EXCEPT !.items = Append(@, value)] ELSE buckets[i]]
    ELSE Append(buckets, [key |-> key, items |-> <<value>>])

\* The collection loop (lines 68-87)
RECURSIVE CollectTournamentPoints(_, _, _, _, _, _, _)
CollectTournamentPoints(points_history, k, tournaments, player_gender, start_abs, end_abs, player_tournament_points) ==
    IF k > Len(points_history) THEN player_tournament_points
    ELSE LET r == points_history[k]
             skip == CollectTournamentPoints(points_history, k + 1, tournaments, player_gender,
                                             start_abs, end_abs, player_tournament_points)
         IN  IF r.tournament_id \notin DOMAIN tournaments THEN skip
             ELSE LET t_abs == tournaments[r.tournament_id].year * 100
                                  + tournaments[r.tournament_id].week
                      gender_id == IF r.player_id \in DOMAIN player_gender
                                   THEN player_gender[r.player_id] ELSE None
                  IN  IF ~(start_abs <= t_abs /\ t_abs <= end_abs) THEN skip
                      ELSE IF gender_id = None \/ gender_id = 0 THEN skip
                      ELSE CollectTournamentPoints(
                               points_history, k + 1, tournaments, player_gender,
                               start_abs, end_abs,
                               AppendToKey(player_tournament_points,
                                           <<r.player_id, r.age_category_id, gender_id>>,
                                           r.points_earned))

RECURSIVE SumSeq(_)
SumSeq(s) == IF s = << >> THEN 0 ELSE Head(s) + SumSeq(Tail(s))

\* sorted(points_list, reverse=True): stable, descending
RECURSIVE SortedReverse(_)
InsertReverse(sorted, x) ==
    LET n == Cardinality({i \in DOMAIN sorted : sorted[i] >= x})
    IN  SubSeq(sorted, 1, n) \o <<x>> \o SubSeq(sorted, n + 1, Len(sorted))
SortedReverse(s) ==
    IF s = << >> THEN << >>
    ELSE InsertReverse(SortedReverse(SubSeq(s, 1, Len(s) - 1)), s[Len(s)])

\* best_4 (line 93)
best_4_first_four(points_list) == Take(points_list, 4)

best_4(points_list) == Take(SortedReverse(points_list), 4)

\* Lines 92-104: one row per key, in insertion order, rank_position still 0
TotalRows(player_tournament_points, ranking_year, ranking_week) ==
    [i \in DOMAIN player_tournament_points |->
        [player_id       |-> player_tournament_points[i].key[1],
         age_category_id |-> player_tournament_points[i].key[2],
         gender_id       |-> player_tournament_points[i].key[3],
         ranking_year    |-> ranking_year,
         ranking_week    |-> ranking_week,
         total_points    |-> SumSeq(best_4(player_tournament_points[i].items)),
         rank_position   |-> 0]]

\* rankings.sort(key=total_points, reverse=True): stable, descending; rows named by index
RECURSIVE SortRowsByTotal(_, _)
InsertRowByTotal(weekly_rankings, sorted, i) ==
    LET n == Cardinality({j \in DOMAIN sorted :
                 weekly_rankings[sorted[j]].total_points >= weekly_rankings[i].total_points})
    IN  SubSeq(sorted, 1, n) \o <<i>> \o SubSeq(sorted, n + 1, Len(sorted))
SortRowsByTotal(weekly_rankings, rows) ==
    IF rows = << >> THEN << >>
    ELSE InsertRowByTotal(weekly_rankings,
                          SortRowsByTotal(weekly_rankings, SubSeq(rows, 1, Len(rows) - 1)),
                          rows[Len(rows)])

\* enumerate(rankings, 1) (lines 112-115): position of the row in its sorted category list
RankInCategory_shared_on_ties(weekly_rankings, i) ==
    LET same == SelectSeq([j \in DOMAIN weekly_rankings |-> j],
                    LAMBDA j : /\ weekly_rankings[j].age_category_id
                                    = weekly_rankings[i].age_category_id
                               /\ weekly_rankings[j].gender_id = weekly_rankings[i].gender_id)
    IN  1 + Cardinality({j \in SeqRange(same) :
                weekly_rankings[j].total_points > weekly_rankings[i].total_points})

RankInCategory(weekly_rankings, i) ==
    LET same == SelectSeq([j \in DOMAIN weekly_rankings |-> j],
                    LAMBDA j : /\ weekly_rankings[j].age_category_id
                                    = weekly_rankings[i].age_category_id
                               /\ weekly_rankings[j].gender_id = weekly_rankings[i].gender_id)
        rankings == SortRowsByTotal(weekly_rankings, same)
    IN  CHOOSE rank \in DOMAIN rankings : rankings[rank] = i

\* calculate_weekly_ranking
calculate_weekly_ranking(ranking_year, ranking_week, points_history, tournaments, player_gender) ==
    LET window_start_week == add_iso_weeks(ranking_year, ranking_week, -52)
        window_end_week   == add_iso_weeks(ranking_year, ranking_week, -1)
        start_abs == _iso_to_abs(window_start_week)
        end_abs   == _iso_to_abs(window_end_week)
        player_tournament_points ==
            CollectTournamentPoints(points_history, 1, tournaments, player_gender,
                                    start_abs, end_abs, << >>)
        weekly_rankings == TotalRows(player_tournament_points, ranking_year, ranking_week)
    IN  [player_tournament_points |-> player_tournament_points,
         weekly_rankings |->
             [i \in DOMAIN weekly_rankings |->
                 [weekly_rankings[i] EXCEPT
                     !.rank_position = RankInCategory(weekly_rankings, i)]]]

\* ---- Inputs ----
MaxRecords == 5

RankingYears == {2020, 2021, 2027}
IsoWeeksOfYears(years) ==
    {w \in [iso_year : years, iso_week : 1..53] : ValidIsoWeek(w.iso_year, w.iso_week)}

\* Players.gender_id: player 4 has no row
PlayerGender == (1 :> 1) @@ (2 :> 1) @@ (3 :> 2)
MissingTournamentId == 9

PointsHistoryRow(player_id, age_category_id, tournament_id, points_earned) ==
    [player_id |-> player_id, age_category_id |-> age_category_id,
     tournament_id |-> tournament_id, points_earned |-> points_earned]

\* One PointsHistory row whose tournament week ranges over the four years around the ranking
\* week; the player may have no gender row and the tournament may be unknown
WindowInput(rw, tw, player_id, tournament_id) ==
    [phase         |-> "input",
     ranking_year  |-> rw.iso_year,
     ranking_week  |-> rw.iso_week,
     points_history |-> <<PointsHistoryRow(player_id, 1, tournament_id, 10)>>,
     tournaments   |-> (1 :> [year |-> tw.iso_year, week |-> tw.iso_week]),
     player_gender |-> PlayerGender,
     player_tournament_points |-> << >>,
     weekly_rankings |-> << >>]

\* Up to MaxRecords rows for ranking week 2026-W10: tournaments 1 and 2 are the last and the
\* first week of the window, tournament 3 is the ranking week itself
BucketTournaments ==
    (1 :> [year |-> 2026, week |-> 9]) @@ (2 :> [year |-> 2025, week |-> 10])
        @@ (3 :> [year |-> 2026, week |-> 10])
BucketRows ==
    {PointsHistoryRow(1, 1, 2, 20), PointsHistoryRow(1, 1, 1, 30), PointsHistoryRow(1, 1, 3, 50),
     PointsHistoryRow(2, 1, 1, 20), PointsHistoryRow(3, 1, 1, 30), PointsHistoryRow(2, 2, 1, 10)}
BucketInput(rows) ==
    [phase         |-> "input",
     ranking_year  |-> 2026,
     ranking_week  |-> 10,
     points_history |-> rows,
     tournaments   |-> BucketTournaments,
     player_gender |-> PlayerGender,
     player_tournament_points |-> << >>,
     weekly_rankings |-> << >>]

InitRanking ==
    /\ km = Idle
    /\ ds = Idle
    /\ tx = Idle
    /\ sd = Idle
    /\ Matches = Idle
    /\ PlayerSuspensions = Idle
    /\ Players = Idle
    /\ DrawPlayers = Idle
    /\ last = Idle
    /\ calls = Idle
    /\ dp = Idle
    /\ sg = Idle
    /\ ph = Idle
    /\ vm = Idle
    /\ \/ \E rw \in IsoWeeksOfYears(RankingYears) :
          \E tw \in IsoWeeksOfYears((rw.iso_year - 2)..(rw.iso_year + 1)),
             pt \in {<<1, 1>>, <<4, 1>>, <<1, MissingTournamentId>>} :
             wr = WindowInput(rw, tw, pt[1], pt[2])
       \/ \E n \in 0..MaxRecords : \E rows \in [1..n -> BucketRows] :
             wr = BucketInput(rows)

CalculateWeeklyRanking ==
    /\ wr.phase = "input"
    /\ LET result == calculate_weekly_ranking(wr.ranking_year, wr.ranking_week,
                                              wr.points_history, wr.tournaments,
                                              wr.player_gender)
       IN  wr' = [wr EXCEPT !.phase = "done",
                            !.player_tournament_points = result.player_tournament_points,
                            !.weekly_rankings = result.weekly_rankings]
    /\ UNCHANGED <<matchVars, dp, sg, ph, vm, sd, tx, ds, km>>

NextRanking == CalculateWeeklyRanking

SpecRanking == InitRanking /\ [][NextRanking]_vars

\* ---- Weekly ranking properties ----
RankingDone == wr.phase = "done"

\* ISO weeks counted on one line: a year has 53 weeks when 1 January or 31 December is a Thursday
DayOfDec31(year) == (year + (year \div 4) - (year \div 100) + (year \div 400)) % 7
WeeksInIsoYear(year) == IF DayOfDec31(year) = 4 \/ DayOfDec31(year - 1) = 3 THEN 53 ELSE 52
RECURSIVE WeekIndex(_, _)
WeekIndex(year, week) ==
    IF year <= 2017 THEN week ELSE WeeksInIsoYear(year - 1) + WeekIndex(year - 1, week)

\* Weeks between the tournament of a PointsHistory row and the ranking week (negative = before)
WeekOffset(r) ==
    WeekIndex(wr.tournaments[r.tournament_id].year, wr.tournaments[r.tournament_id].week)
        - WeekIndex(wr.ranking_year, wr.ranking_week)

BucketKey(r) == <<r.player_id, r.age_category_id, wr.player_gender[r.player_id]>>

\* Rows that can be counted at all: known tournament, player with a gender
Rankable(r) ==
    /\ r.tournament_id \in DOMAIN wr.tournaments
    /\ r.player_id \in DOMAIN wr.player_gender
    /\ wr.player_gender[r.player_id] \notin {None, 0}

InWindow(r) == WeekOffset(r) \in -52..-1

InWindowRows(key) ==
    SelectSeq(wr.points_history, LAMBDA r : Rankable(r) /\ BucketKey(r) = key /\ InWindow(r))

PointsOf(rows) == [k \in DOMAIN rows |-> rows[k].points_earned]

CountedKeys == {wr.player_tournament_points[i].key : i \in DOMAIN wr.player_tournament_points}

\* C13: the points counted for ranking week (year, week) are those of the PointsHistory rows
\* whose tournament week lies 52 to 1 ISO weeks before the ranking week, both ends included;
\* the ranking week itself and the week 53 weeks before are never counted, across year
\* boundaries and 53-week years.
C13_OnlyWindowWeeksCounted ==
    RankingDone =>
        /\ \A i \in DOMAIN wr.player_tournament_points :
              wr.player_tournament_points[i].items
                  = PointsOf(InWindowRows(wr.player_tournament_points[i].key))
        /\ \A k \in DOMAIN wr.points_history :
              LET r == wr.points_history[k]
              IN  (Rankable(r) /\ InWindow(r)) => BucketKey(r) \in CountedKeys

\* Ranking week 2021-W01 after the 53-week year 2020: the row of 2020-W02, 52 weeks before,
\* is counted
C13_Witness ==
    /\ RankingDone
    /\ wr.ranking_year = 2021 /\ wr.ranking_week = 1
    /\ Len(wr.points_history) = 1
    /\ Rankable(wr.points_history[1])
    /\ wr.tournaments[1] = [year |-> 2020, week |-> 2]
    /\ WeekOffset(wr.points_history[1]) = -52
    /\ Len(wr.player_tournament_points) = 1

RankingRows == SeqRange(wr.weekly_rankings)
CategoryRows(age_category_id, gender_id) ==
    {row \in RankingRows : row.age_category_id = age_category_id /\ row.gender_id = gender_id}

\* C14: within each (age_category_id, gender_id) group the rank_position values are exactly
\* 1..k for the k rows of the group, total_points never increases as rank_position grows, and
\* rows with equal totals get distinct consecutive ranks.
C14_RanksAreOneToKByDescendingTotal ==
    RankingDone =>
        \A row \in RankingRows :
            LET group == CategoryRows(row.age_category_id, row.gender_id)
            IN  /\ {g.rank_position : g \in group} = 1..Cardinality(group)
                /\ \A g \in group :
                      /\ g.rank_position < row.rank_position => g.total_points >= row.total_points
                      /\ (g # row /\ g.total_points = row.total_points) =>
                             /\ g.rank_position # row.rank_position
                             /\ \A h \in group :
                                   (Min(g.rank_position, row.rank_position) < h.rank_position
                                    /\ h.rank_position < Max(g.rank_position, row.rank_position))
                                       => h.total_points = row.total_points

\* Two groups, one of them with two players on equal totals
C14_Witness ==
    /\ RankingDone
    /\ \E a, b \in RankingRows :
          /\ a # b
          /\ a.age_category_id = b.age_category_id /\ a.gender_id = b.gender_id
          /\ a.total_points = b.total_points
          /\ a.rank_position = 1 /\ b.rank_position = 2
    /\ \E c \in RankingRows : c.gender_id = 2 /\ c.rank_position = 1
    /\ \E c \in RankingRows : c.age_category_id = 2 /\ c.rank_position = 1

\* Sums of the index sets of a given size
RECURSIVE SumOver(_, _)
SumOver(points, indices) ==
    IF indices = {} THEN 0
    ELSE LET i == CHOOSE x \in indices : TRUE
         IN  points[i] + SumOver(points, indices \ {i})
LargestSum(points, size) ==
    SetMax({SumOver(points, S) : S \in {T \in SUBSET DOMAIN points : Cardinality(T) = size}})

\* C16: total_points of a (player, age category, gender) row is the sum of the 4 largest
\* points_earned among that bucket's in-window PointsHistory rows, or of all of them when the
\* bucket has fewer than 4.
C16_TotalIsSumOfBestFour ==
    RankingDone =>
        /\ \A row \in RankingRows :
              LET points == PointsOf(InWindowRows(<<row.player_id, row.age_category_id,
                                                    row.gender_id>>))
              IN  row.total_points = LargestSum(points, Min(4, Len(points)))
        /\ \A k \in DOMAIN wr.points_history :
              LET r == wr.points_history[k]
              IN  (Rankable(r) /\ InWindow(r)) =>
                      \E row \in RankingRows :
                          <<row.player_id, row.age_category_id, row.gender_id>> = BucketKey(r)

\* Five in-window rows of one bucket, a smallest one first: the total leaves one of them out
C16_Witness ==
    /\ RankingDone
    /\ \E row \in RankingRows :
          LET rows == InWindowRows(<<row.player_id, row.age_category_id, row.gender_id>>)
          IN  /\ Len(rows) = 5
              /\ rows[1].points_earned < rows[5].points_earned
              /\ row.total_points < SumSeq(PointsOf(rows))
              /\ row.total_points = 110

(***************************************************************************)
(* validate_match on stored match records                                  *)
(* (scripts/validation/validate_tennis_matches.py)                         *)
(***************************************************************************)
\* Field values of the records: <<player1, player2>> pairs, None = NULL
NoPair == <<None, None>>
Set1GamePairs == {<<6, 3>>, <<7, 6>>, <<6, 6>>, <<4, 2>>}
Set2GamePairs == {NoPair, <<3, 6>>, <<6, 4>>, <<6, 7>>, <<6, 6>>, <<4, 2>>}
Set3GamePairs == {NoPair, <<6, 4>>, <<6, 7>>, <<6, 6>>, <<4, 2>>, <<6, None>>}
Set1TiebreakPairs == {NoPair, <<7, 5>>, <<7, 3>>, <<7, 6>>}
TiebreakPairs == {NoPair, <<7, 5>>, <<7, 3>>, <<7, 6>>, <<3, 1>>, <<7, None>>}
SuperTiebreakPairs == {NoPair, <<10, 8>>, <<10, 9>>, <<8, 6>>, <<10, None>>}
ValidatedStatuses == {STATUS_COMPLETED, STATUS_RETIRED, STATUS_DISQUALIFIED}

\* Records checked under every match status (Scheduled .. Disqualified)
AnyStatusSet1GamePairs == {NoPair, <<6, 5>>, <<6, 3>>, <<3, 2>>}
AnyStatusSet2GamePairs == {NoPair, <<6, 4>>, <<3, 6>>, <<5, 6>>}
AnyStatusSet3GamePairs == {NoPair, <<6, 4>>}
AnyStatusTiebreakPairs == {NoPair, <<7, 5>>}
AnyStatusSuperTiebreakPairs == {NoPair, <<10, 8>>, <<8, 6>>}

MatchRecord(g1, tb1, g2, tb2, g3, tb3, stb) ==
    [set1_player1 |-> g1[1], set1_player2 |-> g1[2],
     set1_tiebreak_player1 |-> tb1[1], set1_tiebreak_player2 |-> tb1[2],
     set2_player1 |-> g2[1], set2_player2 |-> g2[2],
     set2_tiebreak_player1 |-> tb2[1], set2_tiebreak_player2 |-> tb2[2],
     set3_player1 |-> g3[1], set3_player2 |-> g3[2],
     set3_tiebreak_player1 |-> tb3[1], set3_tiebreak_player2 |-> tb3[2],
     set3_supertiebreak_player1 |-> stb[1], set3_supertiebreak_player2 |-> stb[2]]

InitValidate ==
    /\ km = Idle
    /\ ds = Idle
    /\ tx = Idle
    /\ sd = Idle
    /\ Matches = Idle
    /\ PlayerSuspensions = Idle
    /\ Players = Idle
    /\ DrawPlayers = Idle
    /\ last = Idle
    /\ calls = Idle
    /\ dp = Idle
    /\ sg = Idle
    /\ ph = Idle
    /\ wr = Idle
    /\ \/ \E g1 \in Set1GamePairs, tb1 \in Set1TiebreakPairs,
             g2 \in Set2GamePairs, tb2 \in TiebreakPairs,
             g3 \in Set3GamePairs, tb3 \in TiebreakPairs,
             stb \in SuperTiebreakPairs, status \in ValidatedStatuses :
             vm = [phase |-> "input",
                   match_data |-> MatchRecord(g1, tb1, g2, tb2, g3, tb3, stb),
                   match_status_id |-> status,
                   ok |-> FALSE,
                   errors |-> {}]
       \/ \E g1 \in AnyStatusSet1GamePairs, tb1 \in AnyStatusTiebreakPairs,
             g2 \in AnyStatusSet2GamePairs, tb2 \in AnyStatusTiebreakPairs,
             g3 \in AnyStatusSet3GamePairs,
             stb \in AnyStatusSuperTiebreakPairs, status \in MatchStatusIds :
             vm = [phase |-> "input",
                   match_data |-> MatchRecord(g1, tb1, g2, tb2, g3, NoPair, stb),
                   match_status_id |-> status,
                   ok |-> FALSE,
                   errors |-> {}]

\* validate_match(match_data) -> (len(errors) == 0, errors)
ValidateMatch ==
    /\ vm.phase = "input"
    /\ LET errors == validate_match_errors(vm.match_data, vm.match_status_id)
       IN  vm' = [vm EXCEPT !.phase = "done", !.ok = (errors = {}), !.errors = errors]
    /\ UNCHANGED <<matchVars, dp, sg, ph, wr, sd, tx, ds, km>>

NextValidate == ValidateMatch

SpecValidate == InitValidate /\ [][NextValidate]_vars

\* ---- validate_match properties ----
ValidateDone == vm.phase = "done"
Completed == vm.match_status_id = STATUS_COMPLETED

SetGames(n) ==
    CASE n = 1 -> <<vm.match_data.set1_player1, vm.match_data.set1_player2>>
      [] n = 2 -> <<vm.match_data.set2_player1, vm.match_data.set2_player2>>
      [] n = 3 -> <<vm.match_data.set3_player1, vm.match_data.set3_player2>>
SetTiebreak(n) ==
    CASE n = 1 -> <<vm.match_data.set1_tiebreak_player1, vm.match_data.set1_tiebreak_player2>>
      [] n = 2 -> <<vm.match_data.set2_tiebreak_player1, vm.match_data.set2_tiebreak_player2>>
      [] n = 3 -> <<vm.match_data.set3_tiebreak_player1, vm.match_data.set3_tiebreak_player2>>
SuperTiebreak ==
    <<vm.match_data.set3_supertiebreak_player1, vm.match_data.set3_supertiebreak_player2>>

BothPresent(pair) == pair[1] # None /\ pair[2] # None
AnyPresent(pair)  == pair[1] # None \/ pair[2] # None
WonBy(pair) == IF pair[1] > pair[2] THEN 1 ELSE 2

FirstTwoSetsSplit ==
    /\ BothPresent(SetGames(1)) /\ BothPresent(SetGames(2))
    /\ WonBy(SetGames(1)) # WonBy(SetGames(2))

\* C17: for a Completed match whose first two sets were won by different players, ok = true
\* needs a third set (a normal set or a super-tiebreak pair) and excludes having both; a
\* super-tiebreak pair of an accepted Completed match has max >= 10 and a margin of at least 2.
C17_SplitSetsNeedOneThirdSetFormat ==
    (ValidateDone /\ Completed /\ vm.ok) =>
        /\ FirstTwoSetsSplit =>
              /\ BothPresent(SetGames(3)) \/ BothPresent(SuperTiebreak)
              /\ ~(BothPresent(SetGames(3)) /\ BothPresent(SuperTiebreak))
        /\ BothPresent(SuperTiebreak) =>
              /\ Max(SuperTiebreak[1], SuperTiebreak[2]) >= 10
              /\ Abs(SuperTiebreak[1] - SuperTiebreak[2]) >= 2

\* Split sets decided by a 10-8 super-tiebreak, accepted
C17_Witness ==
    /\ ValidateDone /\ Completed /\ vm.ok
    /\ FirstTwoSetsSplit
    /\ SuperTiebreak = <<10, 8>>
    /\ ~AnyPresent(SetGames(3))

TiebreakSet(pair) == pair \in {<<7, 6>>, <<6, 7>>}

\* C18: for a Completed match, ok = false whenever set 1, set 2 or set 3 has a game score
\* other than 7-6/6-7 and carries a tiebreak value (either tiebreak field non-null).
C18_NoTiebreakOutsideTiebreakSets ==
    (ValidateDone /\ Completed) =>
        \A n \in 1..3 :
            (BothPresent(SetGames(n)) /\ ~TiebreakSet(SetGames(n)) /\ AnyPresent(SetTiebreak(n)))
                => ~vm.ok

\* C19 as stated: for a Completed match a 7-6 or 6-7 set is accepted only when its tiebreak pair
\* is present, has max >= 7 and the winner's margin is exactly 2 points.
C19_TiebreakMarginExactlyTwo ==
    (ValidateDone /\ Completed /\ vm.ok) =>
        \A n \in 1..3 :
            TiebreakSet(SetGames(n)) =>
                /\ BothPresent(SetTiebreak(n))
                /\ Max(SetTiebreak(n)[1], SetTiebreak(n)[2]) >= 7
                /\ Abs(SetTiebreak(n)[1] - SetTiebreak(n)[2]) = 2

\* C19, amended: for a Completed match a 7-6 or 6-7 set is accepted only when its tiebreak pair
\* is present, has max >= 7 and the winner's margin is at least 2 points; a missing pair or a
\* pair violating that rule makes ok = false.
C19_TiebreakMarginAtLeastTwo ==
    (ValidateDone /\ Completed /\ vm.ok) =>
        \A n \in 1..3 :
            TiebreakSet(SetGames(n)) =>
                /\ BothPresent(SetTiebreak(n))
                /\ Max(SetTiebreak(n)[1], SetTiebreak(n)[2]) >= 7
                /\ Abs(SetTiebreak(n)[1] - SetTiebreak(n)[2]) >= 2

\* An accepted Completed match with a 7-6 set decided by a 7-3 tiebreak
C19_Witness ==
    /\ ValidateDone /\ Completed /\ vm.ok
    /\ SetGames(1) = <<7, 6>>
    /\ SetTiebreak(1) = <<7, 3>>

\* Incomplete elements of a record: a partial game score, a 6-6 set with tiebreak points, a
\* partial super-tiebreak
PartialGames(pair) ==
    /\ BothPresent(pair)
    /\ pair \notin valid_scores
    /\ pair # <<6, 6>>
SixAllWithTiebreak(n) == SetGames(n) = <<6, 6>> /\ BothPresent(SetTiebreak(n))
PartialSuperTiebreak ==
    /\ BothPresent(SuperTiebreak)
    /\ ~(Max(SuperTiebreak[1], SuperTiebreak[2]) >= 10
         /\ Abs(SuperTiebreak[1] - SuperTiebreak[2]) >= 2)
HasIncompleteElement ==
    \/ \E n \in 1..3 : PartialGames(SetGames(n)) \/ SixAllWithTiebreak(n)
    \/ PartialSuperTiebreak

\* C20: for a Retired or Disqualified match, ok = true only if the record contains at least one
\* incomplete/partial element; a record of completed sets only (one complete set alone, two
\* complete sets, or complete sets 1 and 3) is rejected.
C20_RetiredNeedsIncompleteElement ==
    (ValidateDone /\ vm.match_status_id \in {STATUS_RETIRED, STATUS_DISQUALIFIED} /\ vm.ok) =>
        HasIncompleteElement

\* ---- Walkover and the 6-5 scenario ----
Set1Is(g1, g2) == vm.match_data.set1_player1 = g1 /\ vm.match_data.set1_player2 = g2

\* C21: for a match with status Walkover, validate_match places no constraint on the
\* score fields: it returns ok = true for every combination of set, tie-break and
\* super-tie-break values.
C21_WalkoverAcceptsEveryScore ==
    (ValidateDone /\ vm.match_status_id = STATUS_WALKOVER) => vm.ok

ScorePairNames ==
    {"set1", "set1_tiebreak", "set2", "set2_tiebreak", "set3", "set3_tiebreak",
     "set3_supertiebreak"}

PairOf(score, name) == <<score[ScoreFieldKey(name, 1)], score[ScoreFieldKey(name, 2)]>>

LeadingSlot(pair) == IF pair[1] > pair[2] THEN 1 ELSE 2

\* Slot ahead in the last recorded element of a scoreline: super tie-break, else the
\* tie-break points of the last set that has them, else its games
LastElement(score) ==
    IF PairOf(score, "set3_supertiebreak") # NoPair THEN PairOf(score, "set3_supertiebreak")
    ELSE IF PairOf(score, "set3_tiebreak") # NoPair THEN PairOf(score, "set3_tiebreak")
    ELSE IF PairOf(score, "set3") # NoPair THEN PairOf(score, "set3")
    ELSE IF PairOf(score, "set2_tiebreak") # NoPair THEN PairOf(score, "set2_tiebreak")
    ELSE IF PairOf(score, "set2") # NoPair THEN PairOf(score, "set2")
    ELSE IF PairOf(score, "set1_tiebreak") # NoPair THEN PairOf(score, "set1_tiebreak")
    ELSE PairOf(score, "set1")

WinnerSwapped == sg.phase = "forced" /\ sg.sampled_winner_slot # sg.winner_slot

\* C23: when the sampled winner differs from the desired one, _swap_score_fields exchanges
\* every *_player1 field with its *_player2 counterpart: the swapped scoreline is accepted
\* by validate_match for the same status exactly when the sampled one is, the slot leading
\* each set, tie-break and super tie-break is flipped (so the slot ahead in the deciding
\* element becomes the desired winner), and swapping twice returns the sampled record.
C23_SwapFlipsWinnerAndKeepsValidity ==
    WinnerSwapped =>
        /\ validate_match(sg.score, sg.status) <=> validate_match(sg.sampled_score, sg.status)
        /\ sg.is_valid
        /\ \A name \in ScorePairNames :
              LET before == PairOf(sg.sampled_score, name)
                  after  == PairOf(sg.score, name)
              IN  /\ after = <<before[2], before[1]>>
                  /\ before[1] # before[2] => LeadingSlot(after) # LeadingSlot(before)
        /\ LeadingSlot(LastElement(sg.sampled_score)) = sg.sampled_winner_slot
        /\ LeadingSlot(LastElement(sg.score)) = sg.winner_slot
        /\ _swap_score_fields(sg.score) = sg.sampled_score

\* A retirement at 6-6 in set 2 with player2 ahead 3-5 in the tie-break, forced to player1
C23_Witness ==
    /\ WinnerSwapped
    /\ sg.status = STATUS_RETIRED
    /\ sg.sampled_winner_slot = 2
    /\ sg.winner_slot = 1
    /\ PairOf(sg.sampled_score, "set1") = <<7, 6>>
    /\ PairOf(sg.sampled_score, "set1_tiebreak") = <<7, 4>>
    /\ PairOf(sg.score, "set1") = <<6, 7>>
    /\ PairOf(sg.score, "set1_tiebreak") = <<4, 7>>
    /\ PairOf(sg.score, "set2") = <<6, 6>>
    /\ PairOf(sg.score, "set2_tiebreak") = <<5, 3>>
    /\ sg.is_valid

(***************************************************************************)
(* Seeding engine  (src/modules/seeding_engine.py)                         *)
(***************************************************************************)
\* player_ranking_positions is a dict: a sequence of <<player_id, ranking_position>> in
\* insertion order.  sorted(items, key=rank) is stable.
RECURSIVE InsertByRank(_, _)
InsertByRank(sorted, item) ==
    IF sorted = << >> THEN <<item>>
    ELSE IF item[2] < Head(sorted)[2] THEN <<item>> \o sorted
    ELSE <<Head(sorted)>> \o InsertByRank(Tail(sorted), item)

RECURSIVE SortedByRank(_)
SortedByRank(items) ==
    IF items = << >> THEN << >>
    ELSE InsertByRank(SortedByRank(SubSeq(items, 1, Len(items) - 1)), items[Len(items)])

SeedAssignment(player_id, seed_number, is_actual_seeding) ==
    [player_id |-> player_id, seed_number |-> seed_number,
     is_actual_seeding |-> is_actual_seeding]

\* enumerate(ranked[:seed_count], start=1)
SeedRows(ranked, seed_count, is_actual_seeding) ==
    [i \in 1..Min(seed_count, Len(ranked)) |->
        SeedAssignment(ranked[i][1], i, is_actual_seeding)]

Raised == [returned |-> "ValueError", rows |-> << >>]
ReturnedNone == [returned |-> "None", rows |-> << >>]
ReturnedRows(rows) == [returned |-> "list", rows |-> rows]

compute_planned_seeding(player_ranking_positions, draw_size) ==
    IF draw_size < MIN_DRAW_SIZE THEN Raised
    ELSE LET seed_count == seeds_for_draw_size(draw_size)
         IN  IF seed_count = 0 THEN ReturnedRows(<< >>)
             ELSE ReturnedRows(SeedRows(SortedByRank(player_ranking_positions), seed_count, FALSE))

\* Mutant: the withdrawn player stays in the pool that is ranked again
compute_actual_seeding_after_withdrawal_keeps_pool(planned_seeds, withdrawn_player_id, player_ranking_positions, draw_size) ==
    IF draw_size < MIN_DRAW_SIZE THEN Raised
    ELSE LET seed_count == seeds_for_draw_size(draw_size)
             planned_seeded_players == {planned_seeds[i].player_id : i \in DOMAIN planned_seeds}
         IN  IF seed_count = 0 THEN ReturnedNone
             ELSE IF withdrawn_player_id \notin planned_seeded_players THEN ReturnedNone
             ELSE ReturnedRows(SeedRows(SortedByRank(player_ranking_positions), seed_count, TRUE))

compute_actual_seeding_after_withdrawal(planned_seeds, withdrawn_player_id, player_ranking_positions, draw_size) ==
    IF draw_size < MIN_DRAW_SIZE THEN Raised
    ELSE LET seed_count == seeds_for_draw_size(draw_size)
             planned_seeded_players == {planned_seeds[i].player_id : i \in DOMAIN planned_seeds}
         IN  IF seed_count = 0 THEN ReturnedNone
             ELSE IF withdrawn_player_id \notin planned_seeded_players THEN ReturnedNone
             ELSE LET remaining_players ==
                          SelectSeq(player_ranking_positions,
                                    LAMBDA item : item[1] # withdrawn_player_id)
                  IN  ReturnedRows(SeedRows(SortedByRank(remaining_players), seed_count, TRUE))

\* ---- inputs ----
MaxRankedPlayers == 5
RankingPositions == 1..3
SeedingDrawSizes == {5, 8, 16}

\* Dicts whose keys were inserted in descending player_id order
RankingDicts(n) ==
    {[i \in 1..n |-> <<n + 1 - i, ranks[i]>>] : ranks \in [1..n -> RankingPositions]}

InitSeeding ==
    /\ km = Idle
    /\ ds = Idle
    /\ tx = Idle
    /\ Matches = Idle
    /\ PlayerSuspensions = Idle
    /\ Players = Idle
    /\ DrawPlayers = Idle
    /\ last = Idle
    /\ calls = Idle
    /\ dp = Idle
    /\ sg = Idle
    /\ ph = Idle
    /\ wr = Idle
    /\ vm = Idle
    /\ \E n \in 0..MaxRankedPlayers, draw_size \in SeedingDrawSizes :
         \E player_ranking_positions \in RankingDicts(n), withdrawn_player_id \in 1..(n + 1) :
            sd = [phase |-> "input",
                  player_ranking_positions |-> player_ranking_positions,
                  draw_size |-> draw_size,
                  withdrawn_player_id |-> withdrawn_player_id,
                  planned |-> Raised,
                  actual |-> Raised]

ComputePlannedSeeding ==
    /\ sd.phase = "input"
    /\ sd' = [sd EXCEPT !.phase = "planned",
                        !.planned = compute_planned_seeding(sd.player_ranking_positions,
                                                            sd.draw_size)]
    /\ UNCHANGED <<matchVars, dp, sg, ph, wr, vm, tx, ds, km>>

ComputeActualSeedingAfterWithdrawal ==
    /\ sd.phase = "planned"
    /\ sd' = [sd EXCEPT !.phase = "done",
                        !.actual = compute_actual_seeding_after_withdrawal(
                                       sd.planned.rows, sd.withdrawn_player_id,
                                       sd.player_ranking_positions, sd.draw_size)]
    /\ UNCHANGED <<matchVars, dp, sg, ph, wr, vm, tx, ds, km>>

NextSeeding == ComputePlannedSeeding \/ ComputeActualSeedingAfterWithdrawal

SpecSeeding == InitSeeding /\ [][NextSeeding]_vars

\* ---- properties ----
SeedingDone == sd.phase = "done"
PlannedSeeds == {sd.planned.rows[i].player_id : i \in DOMAIN sd.planned.rows}
RemainingPool ==
    {i \in DOMAIN sd.player_ranking_positions :
        sd.player_ranking_positions[i][1] # sd.withdrawn_player_id}
RankOf(player_id) ==
    LET i == CHOOSE j \in DOMAIN sd.player_ranking_positions :
                 sd.player_ranking_positions[j][1] = player_id
    IN  sd.player_ranking_positions[i][2]

\* C24: compute_actual_seeding_after_withdrawal returns None whenever the withdrawn player
\* is not among the planned seeds; otherwise it returns seeds numbered
\* 1..min(K, remaining entrants) in ascending ranking-position order over the pool without
\* the withdrawn player, every row has is_actual_seeding = true, and the withdrawn player
\* is in no row.  (For a draw_size below 6 seeds_for_draw_size raises and nothing is
\* returned.)
C24_ActualSeedingAfterWithdrawal ==
    SeedingDone =>
        LET rows == sd.actual.rows
            K    == seeds_for_draw_size(sd.draw_size)
            seeded == {rows[i].player_id : i \in DOMAIN rows}
        IN  IF sd.draw_size < MIN_DRAW_SIZE THEN sd.actual.returned = "ValueError"
            ELSE IF sd.withdrawn_player_id \notin PlannedSeeds THEN sd.actual.returned = "None"
            ELSE /\ sd.actual.returned = "list"
                 /\ Len(rows) = Min(K, Cardinality(RemainingPool))
                 /\ \A i \in DOMAIN rows :
                       /\ rows[i].seed_number = i
                       /\ rows[i].is_actual_seeding
                       /\ rows[i].player_id # sd.withdrawn_player_id
                       /\ \E j \in RemainingPool :
                             sd.player_ranking_positions[j][1] = rows[i].player_id
                 /\ \A i, j \in DOMAIN rows :
                       /\ i < j => RankOf(rows[i].player_id) <= RankOf(rows[j].player_id)
                       /\ i # j => rows[i].player_id # rows[j].player_id
                 /\ \A i \in DOMAIN rows, j \in RemainingPool :
                       sd.player_ranking_positions[j][1] \notin seeded
                           => RankOf(rows[i].player_id) <= sd.player_ranking_positions[j][2]

\* Seed 2 of four planned seeds withdraws from a pool of four: three seeds remain, fewer
\* than K = 4
C24_Witness ==
    /\ SeedingDone
    /\ sd.draw_size = 16
    /\ Len(sd.player_ranking_positions) = 4
    /\ Len(sd.planned.rows) = 4
    /\ sd.planned.rows[2].player_id = sd.withdrawn_player_id
    /\ sd.actual.returned = "list"
    /\ Len(sd.actual.rows) = 3
    /\ sd.actual.rows[2].player_id = sd.planned.rows[3].player_id
    /\ sd.actual.rows[2].seed_number = 2

\* ---- Natural key of the Matches rows ----
MatchKey(row) == <<row.draw_id, row.round_id, row.match_number>>

SkeletonCreated == \E k \in DOMAIN Matches : Matches[k].draw_id = DrawId

\* C25: after any sequence of create_match_skeleton and apply_result calls on a draw,
\* including create_match_skeleton invoked more than once for the same draw_id, at most one
\* Matches row exists per (draw_id, round_id, match_number), and the draw holds exactly
\* D - 1 matches.
C25_OneMatchRowPerBracketSlot ==
    /\ \A i, j \in DOMAIN Matches : MatchKey(Matches[i]) = MatchKey(Matches[j]) => i = j
    /\ SkeletonCreated =>
          Cardinality({k \in DOMAIN Matches : Matches[k].draw_id = DrawId})
              = _draw_size_from_num_entries(NumEntries(DrawPlayers)) - 1

\* C28: in every state reachable by create_match_skeleton followed by successful
\* apply_result calls, every match with a non-null winner_id has that winner_id equal to
\* its current player1_id or player2_id.
C28_WinnerIsCurrentParticipant ==
    \A k \in DOMAIN Matches :
        Matches[k].winner_id # None =>
            Matches[k].winner_id \in {Matches[k].player1_id, Matches[k].player2_id}

\* sets_p1 / sets_p2 as apply_result_and_advance counts them (lines 256-266); the counts
\* are not read again by the function
sets_won(score, slot) ==
    Cardinality({s \in {"set1", "set2", "set3"} :
        LET sp1 == score[ScoreFieldKey(s, 1)]
            sp2 == score[ScoreFieldKey(s, 2)]
        IN  /\ sp1 # None
            /\ sp2 # None
            /\ IF slot = 1 THEN sp1 > sp2 ELSE sp2 > sp1})

\* C29: for a Completed result, apply_result records and advances winner_id only when it
\* is consistent with the set scores of the payload: player1 when player1 won more sets,
\* player2 when player2 won more sets; a payload naming the participant who lost on sets
\* is rejected.
C29_CompletedWinnerMatchesSetScores ==
    (/\ ApplyOk(last)
     /\ last.match_status_id = STATUS_COMPLETED
     /\ last.winner_id \in {Matches[last.match_id].player1_id,
                            Matches[last.match_id].player2_id}) =>
        LET m       == Matches[last.match_id]
            sets_p1 == sets_won(last.score, 1)
            sets_p2 == sets_won(last.score, 2)
        IN  /\ sets_p1 > sets_p2 => last.winner_id = m.player1_id
            /\ sets_p2 > sets_p1 => last.winner_id = m.player2_id

(***************************************************************************)
(* Concurrent apply_result_and_advance invocations                         *)
(* (scripts/services/match_service.py, one psycopg2 connection per call)   *)
(***************************************************************************)
\* Every call opens its own connection, runs its statements in one transaction and commits
\* at line 473.  PostgreSQL's default isolation (READ COMMITTED) is modelled per statement:
\* a statement sees the committed tables and the writes of its own transaction; an UPDATE
\* waits while another open transaction has written the row; writes reach the tables at
\* COMMIT.  Matches, PlayerSuspensions and Players hold the committed rows.
Invocations == {1, 2}

Other(p) == 3 - p

NoTransaction ==
    [pc |-> "idle", payload |-> [match_id |-> None, match_status_id |-> None,
                                 winner_id |-> None, score |-> _blank_score_fields],
     m |-> [match_id |-> None, round_id |-> None, match_number |-> None,
            player1_id |-> None, player2_id |-> None],
     wo_player_id |-> None, match_writes |-> << >>, inserted |-> << >>, suspended |-> {}]

\* UPDATE statements of the transaction applied in order to the Matches rows
RECURSIVE ApplyMatchWrites(_, _, _)
ApplyMatchWrites(table, writes, k) ==
    IF k > Len(writes) THEN table
    ELSE LET w == writes[k]
             written == IF w.kind = "result"
                        THEN UpdateCurrentMatch(table, DrawId, w.payload)
                        ELSE AdvanceWinner(table, DrawId, w.round_id, w.match_number,
                                           w.winner_id)
         IN  ApplyMatchWrites(written \o << >>, writes, k + 1)

VisibleMatches(t) == ApplyMatchWrites(Matches, t.match_writes, 1)
VisibleSuspensions(t) == PlayerSuspensions \o t.inserted

\* Rows written, hence locked, by an open transaction
WrittenMatchRows(t) ==
    {k \in DOMAIN Matches : ApplyMatchWrites(Matches, t.match_writes, 1)[k] # Matches[k]
                            \/ \E i \in DOMAIN t.match_writes :
                                  /\ t.match_writes[i].kind = "result"
                                  /\ t.match_writes[i].payload.match_id = Matches[k].match_id}

NextRoundRows(m) ==
    {k \in DOMAIN Matches : /\ Matches[k].draw_id = DrawId
                            /\ Matches[k].round_id = m.round_id + 1
                            /\ Matches[k].match_number = (m.match_number + 1) \div 2}

\* Mutant: every inserted row gets suspension_id 1
NextSuspensionId_first(table) == 1

\* COALESCE(MAX(suspension_id), 0) + 1 over the rows the statement sees
NextSuspensionId(table) == SetMax({0} \cup {table[k].suspension_id : k \in DOMAIN table}) + 1

\* ---- the tables the two calls start from ----
FullDraw == [pos \in BracketPositions |-> PlayerAt(pos)]

SkeletonOfFullDraw ==
    SkeletonRows(DrawId, FullDraw, DrawSize, 1, _starting_round_id(DrawSize), 0)

CompletedResult(match_id, winner_id) ==
    [match_id |-> match_id, match_status_id |-> STATUS_COMPLETED, winner_id |-> winner_id,
     score |-> ScoreTwoSets]

\* apply_result_and_advance run to completion on its own for a Completed result
AppliedAlone(table, payload) ==
    LET m == table[CHOOSE k \in DOMAIN table : table[k].match_id = payload.match_id]
    IN  AdvanceWinner(UpdateCurrentMatch(table, DrawId, payload) \o << >>, DrawId,
                      m.round_id, m.match_number, payload.winner_id) \o << >>

\* After the skeleton, and after the results of matches 1 and 2 (winners at positions 1, 3)
ConcurrentStartTables ==
    {SkeletonOfFullDraw,
     AppliedAlone(AppliedAlone(SkeletonOfFullDraw, CompletedResult(1, PlayerAt(1))),
                  CompletedResult(2, PlayerAt(3)))}

ConcurrentMatchIds == {1, 2, 5}

ConcurrentPayloads ==
    UNION {[match_id : {id}, match_status_id : {STATUS_COMPLETED}, score : {ScoreTwoSets},
            winner_id : {Matches[id].player1_id, Matches[id].player2_id}]
           \cup [match_id : {id}, match_status_id : {STATUS_WALKOVER}, score : {ScoreBlank},
                 winner_id : {Matches[id].player1_id, Matches[id].player2_id}] :
           id \in ConcurrentMatchIds}

InitConcurrent ==
    /\ km = Idle
    /\ ds = Idle
    /\ Matches \in ConcurrentStartTables
    /\ PlayerSuspensions = << >>
    /\ Players = [p \in PlayerIds |-> PLAYER_STATUS_ACTIVE]
    /\ DrawPlayers = FullDraw
    /\ last = Idle
    /\ calls = Idle
    /\ dp = Idle
    /\ sg = Idle
    /\ ph = Idle
    /\ wr = Idle
    /\ vm = Idle
    /\ sd = Idle
    /\ tx = [proc |-> [p \in Invocations |-> NoTransaction], overlapped |-> FALSE]

Rollback(p) == tx' = [tx EXCEPT !.proc[p] = [NoTransaction EXCEPT !.pc = "failed"]]

InProgress(t) == t.pc \notin {"idle", "done", "failed"}

\* validate_match and SELECT ... FROM Matches WHERE match_id AND draw_id (lines 232-284)
SelectMatch(p) ==
    /\ tx.proc[p].pc = "idle"
    /\ \E payload \in ConcurrentPayloads :
          LET rows == SelectSeq(Matches, LAMBDA row : row.match_id = payload.match_id
                                                       /\ row.draw_id = DrawId)
          IN  IF ~ScoreAccepted(payload) \/ rows = << >>
              THEN Rollback(p)
              ELSE tx' = [tx EXCEPT !.proc[p].pc = "update",
                                    !.proc[p].payload = payload,
                                    !.proc[p].m = [match_id |-> rows[1].match_id,
                                                   round_id |-> rows[1].round_id,
                                                   match_number |-> rows[1].match_number,
                                                   player1_id |-> rows[1].player1_id,
                                                   player2_id |-> rows[1].player2_id],
                                    !.overlapped = @ \/ InProgress(tx.proc[Other(p)])]
    /\ UNCHANGED <<matchVars, dp, sg, ph, wr, vm, sd, ds, km>>

\* UPDATE Matches SET status, winner, scores WHERE match_id AND draw_id (lines 290-312)
UpdateMatch(p) ==
    LET t == tx.proc[p]
    IN  /\ t.pc = "update"
        /\ \A k \in WrittenMatchRows(tx.proc[Other(p)]) : Matches[k].match_id # t.payload.match_id
        /\ tx' = [tx EXCEPT !.proc[p].pc = IF t.payload.match_status_id = STATUS_WALKOVER
                                           THEN "sanction" ELSE "advance",
                            !.proc[p].match_writes =
                                Append(@, [kind |-> "result", payload |-> t.payload,
                                           round_id |-> None, match_number |-> None,
                                           winner_id |-> None])]
        /\ UNCHANGED <<matchVars, dp, sg, ph, wr, vm, sd, ds, km>>

\* Participant test and SELECT 1 FROM PlayerSuspensions ... (lines 386-417)
CheckSuspension(p) ==
    LET t == tx.proc[p]
        wo_player_id == IF t.payload.winner_id = t.m.player1_id THEN t.m.player2_id
                        ELSE t.m.player1_id
        exists == SuspensionExists(VisibleSuspensions(t), wo_player_id, TournamentId,
                                   STATUS_WALKOVER)
    IN  /\ t.pc = "sanction"
        /\ IF t.payload.winner_id \notin {t.m.player1_id, t.m.player2_id}
              \/ (~exists /\ wo_player_id = None)
           THEN Rollback(p)
           ELSE tx' = [tx EXCEPT !.proc[p].pc = IF exists THEN "advance" ELSE "insert",
                                 !.proc[p].wo_player_id = wo_player_id]
        /\ UNCHANGED <<matchVars, dp, sg, ph, wr, vm, sd, ds, km>>

\* INSERT INTO PlayerSuspensions ... SELECT COALESCE(MAX(suspension_id), 0) + 1 (419-436)
InsertSuspensionRow(p) ==
    LET t == tx.proc[p]
    IN  /\ t.pc = "insert"
        /\ tx' = [tx EXCEPT !.proc[p].pc = "suspend",
                            !.proc[p].inserted =
                                Append(@, [suspension_id |-> NextSuspensionId(VisibleSuspensions(t)),
                                           player_id |-> t.wo_player_id,
                                           tournament_id |-> TournamentId,
                                           reason_match_status_id |-> STATUS_WALKOVER,
                                           months |-> 2])]
        /\ UNCHANGED <<matchVars, dp, sg, ph, wr, vm, sd, ds, km>>

\* UPDATE Players SET status_id = 4 WHERE player_id (lines 438-445)
SuspendPlayer(p) ==
    LET t == tx.proc[p]
    IN  /\ t.pc = "suspend"
        /\ t.wo_player_id \notin tx.proc[Other(p)].suspended
        /\ tx' = [tx EXCEPT !.proc[p].pc = "advance",
                            !.proc[p].suspended = @ \cup {t.wo_player_id}]
        /\ UNCHANGED <<matchVars, dp, sg, ph, wr, vm, sd, ds, km>>

\* UPDATE Matches SET player1_id / player2_id of the next-round match (lines 449-471)
AdvanceWinnerStatement(p) ==
    LET t == tx.proc[p]
    IN  /\ t.pc = "advance"
        /\ NextRoundRows(t.m) \cap WrittenMatchRows(tx.proc[Other(p)]) = {}
        /\ tx' = [tx EXCEPT !.proc[p].pc = "commit",
                            !.proc[p].match_writes =
                                Append(@, [kind |-> "advance", payload |-> t.payload,
                                           round_id |-> t.m.round_id,
                                           match_number |-> t.m.match_number,
                                           winner_id |-> t.payload.winner_id])]
        /\ UNCHANGED <<matchVars, dp, sg, ph, wr, vm, sd, ds, km>>

\* db.connection.commit() (line 473)
Commit(p) ==
    LET t == tx.proc[p]
    IN  /\ t.pc = "commit"
        /\ Matches' = VisibleMatches(t)
        /\ PlayerSuspensions' = VisibleSuspensions(t)
        /\ Players' = [q \in DOMAIN Players |->
                          IF q \in t.suspended THEN PLAYER_STATUS_SUSPENDED ELSE Players[q]]
        /\ tx' = [tx EXCEPT !.proc[p] = [NoTransaction EXCEPT !.pc = "done",
                                                              !.payload = t.payload]]
        /\ UNCHANGED <<DrawPlayers, last, calls, dp, sg, ph, wr, vm, sd, ds, km>>

NextConcurrent ==
    \E p \in Invocations :
        \/ SelectMatch(p)
        \/ UpdateMatch(p)
        \/ CheckSuspension(p)
        \/ InsertSuspensionRow(p)
        \/ SuspendPlayer(p)
        \/ AdvanceWinnerStatement(p)
        \/ Commit(p)

SpecConcurrent == InitConcurrent /\ [][NextConcurrent]_vars

\* ---- properties ----
BothCommitted == \A p \in Invocations : tx.proc[p].pc = "done"

SuspensionIdsUnique ==
    \A i, j \in DOMAIN PlayerSuspensions :
        PlayerSuspensions[i].suspension_id = PlayerSuspensions[j].suspension_id => i = j

SuspensionKeysDistinct ==
    \A i, j \in DOMAIN PlayerSuspensions :
        SuspensionKey(PlayerSuspensions[i]) = SuspensionKey(PlayerSuspensions[j]) => i = j

ServiceEntryCounts == {5, 6, 7}
UnseededEntryCounts == {5, 6}
\* tournaments 1-2 are not seeded (line 134)
ServiceTournamentIds == {2, 3}
GeneratedAtCases == {"before_entry_deadline", "in_window", "after_draw_deadline"}

\* entry_points of the three entrants with the lowest player ids; the others have fewer
TopEntryPoints == [1..3 -> {20, 30, 40}]
TimestampOrders == {"by_player_id", "by_player_id_reversed"}

EntryRow(pid, n, top, order) ==
    [player_id |-> pid,
     entry_points |-> IF pid <= 3 THEN top[pid] ELSE 10,
     entry_timestamp |-> IF order = "by_player_id" THEN pid ELSE n + 1 - pid]

\* ORDER BY entry_points DESC, entry_timestamp ASC (lines 65-76)
EntryQueryLess(a, b) ==
    \/ a.entry_points > b.entry_points
    \/ a.entry_points = b.entry_points /\ a.entry_timestamp < b.entry_timestamp

RECURSIVE InsertQueryOrder(_, _)
InsertQueryOrder(rows, e) ==
    IF rows = << >> THEN <<e>>
    ELSE IF EntryQueryLess(e, Head(rows)) THEN <<e>> \o rows
    ELSE <<Head(rows)>> \o InsertQueryOrder(Tail(rows), e)

RECURSIVE EntriesQuery(_, _, _, _)
EntriesQuery(k, n, top, order) ==
    IF k = 0 THEN << >>
    ELSE InsertQueryOrder(EntriesQuery(k - 1, n, top, order), EntryRow(k, n, top, order))

\* The SeedingRules rows with min_players <= len(entries) <= max_players (lines 104-105)
SeedingRuleRows == {<< >>, <<[min_players |-> 6, max_players |-> 8, num_seeds |-> 2]>>}

\* sorted(entries, key=lambda e: -int(e.get("entry_points", 0))): a stable sort
RECURSIVE InsertByPointsStable(_, _)
InsertByPointsStable(sorted, e) ==
    IF sorted = << >> THEN <<e>>
    ELSE IF e.entry_points > Head(sorted).entry_points THEN <<e>> \o sorted
    ELSE <<Head(sorted)>> \o InsertByPointsStable(Tail(sorted), e)

RECURSIVE seeded_entries(_)
seeded_entries(entries) ==
    IF entries = << >> THEN << >>
    ELSE InsertByPointsStable(seeded_entries(SubSeq(entries, 1, Len(entries) - 1)),
                              entries[Len(entries)])

\* rule = seeding_rules[0] if seeding_rules else {}; num_seeds = int(rule.get("num_seeds", 0))
RuleNumSeeds(seeding_rules) == IF seeding_rules = << >> THEN 0 ELSE seeding_rules[1].num_seeds
RuleMaxPlayers(seeding_rules) == IF seeding_rules = << >> THEN None ELSE seeding_rules[1].max_players

\* Lines 164-184: the DrawSeed rows inserted for the draw
DrawSeedRows(draw_id, entries, seeding_rules) ==
    LET top == Take(seeded_entries(entries), RuleNumSeeds(seeding_rules))
    IN  [seed_num \in DOMAIN top |->
            [draw_id |-> draw_id, player_id |-> top[seed_num].player_id,
             seed_number |-> seed_num, seeding_points |-> top[seed_num].entry_points,
             is_actual_seeding |-> TRUE]]

DrawRequest(tournament_id, generated_at, entries, seeding_rules) ==
    [phase |-> "request", outcome |-> "none", tournament_id |-> tournament_id,
     generated_at |-> generated_at, entries |-> entries, seeding_rules |-> seeding_rules,
     draw_id |-> None, Draws |-> {}, DrawPlayers |-> EmptyBag, DrawSeed |-> << >>]

InitDrawService ==
    /\ tx = Idle
    /\ sd = Idle
    /\ km = Idle
    /\ Matches = Idle
    /\ PlayerSuspensions = Idle
    /\ Players = Idle
    /\ DrawPlayers = Idle
    /\ last = Idle
    /\ calls = Idle
    /\ dp = Idle
    /\ sg = Idle
    /\ ph = Idle
    /\ wr = Idle
    /\ vm = Idle
    /\ \/ \E n \in ServiceEntryCounts, top \in TopEntryPoints, order \in TimestampOrders,
             generated_at \in GeneratedAtCases :
             ds = DrawRequest(3, generated_at, EntriesQuery(n, n, top, order),
                              <<[min_players |-> 6, max_players |-> 8, num_seeds |-> 2]>>)
       \/ \E n \in UnseededEntryCounts, tournament_id \in ServiceTournamentIds,
             seeding_rules \in SeedingRuleRows :
             ds = DrawRequest(tournament_id, "in_window",
                              EntriesQuery(n, n, [i \in 1..3 |-> 20 + 10 * i], "by_player_id"),
                              seeding_rules)

\* generate_draw_from_entries up to the call of generate_draw_players (lines 59-142)
GenerateDrawFromEntries ==
    /\ ds.phase = "request"
    /\ IF Len(ds.entries) < 6 \/ ds.generated_at # "in_window"
       THEN /\ ds' = [ds EXCEPT !.phase = "done", !.outcome = "DrawServiceError"]
            /\ UNCHANGED dp
       ELSE LET draw_id == DrawId
                disable_seeding == ds.tournament_id \in {1, 2}
            IN  /\ ds' = [ds EXCEPT !.phase = "generating", !.draw_id = draw_id,
                                    !.Draws = {[draw_id |-> draw_id,
                                                tournament_id |-> ds.tournament_id,
                                                num_players |-> Len(ds.entries)]}]
                /\ dp' = DrawInput(ds.entries, None,
                                   [max_players |-> RuleMaxPlayers(ds.seeding_rules),
                                    num_seeds |-> IF disable_seeding THEN 0
                                                  ELSE RuleNumSeeds(ds.seeding_rules)])
    /\ UNCHANGED <<matchVars, sg, ph, wr, vm, sd, tx, km>>

\* Lines 144-202: insert the returned rows and the DrawSeed rows, commit; or roll back
InsertDrawRows ==
    /\ ds.phase = "generating"
    /\ dp.phase = "done"
    /\ IF dp.outcome \in {"value_error", "index_error"}
       THEN ds' = [ds EXCEPT !.phase = "done", !.outcome = dp.outcome, !.Draws = {}]
       ELSE ds' = [ds EXCEPT !.phase = "done", !.outcome = "committed",
                             !.DrawPlayers = dp.rows,
                             !.DrawSeed = IF ds.tournament_id \in {1, 2} THEN << >>
                                          ELSE DrawSeedRows(ds.draw_id, ds.entries,
                                                            ds.seeding_rules)]
    /\ UNCHANGED <<matchVars, dp, sg, ph, wr, vm, sd, tx, km>>

NextDrawService ==
    \/ GenerateDrawFromEntries
    \/ GenerateDrawPlayers
    \/ PlaceUnseededBye
    \/ PlaceUnseededNoBye
    \/ InsertDrawRows

SpecDrawService == InitDrawService /\ [][NextDrawService]_vars

DrawCommitted == ds.phase = "done" /\ ds.outcome = "committed"

PersistedPosition(player_id) ==
    {row.draw_position : row \in {r \in BagToSet(ds.DrawPlayers) : r.player_id = player_id}}

CanonicalSeedPosition(seed_number) ==
    get_standard_seeding_positions(dp.draw_size, RuleNumSeeds(ds.seeding_rules))[seed_number]

\* C27: after generate_draw_from_entries on a seeded tournament, every DrawSeed row with
\* seed_number k belongs to a player whose DrawPlayers row is at the canonical position of
\* seed k, also when several entrants have equal entry_points.
C27_SeedRowsAgreeWithDrawPositions ==
    DrawCommitted =>
        \A i \in DOMAIN ds.DrawSeed :
            PersistedPosition(ds.DrawSeed[i].player_id) =
                {CanonicalSeedPosition(ds.DrawSeed[i].seed_number)}

\* The same agreement for draws whose entrants all differ in entry_points among the
\* candidates for a seed
TopPointsDistinct ==
    \A i, j \in DOMAIN ds.entries :
        (i # j /\ ds.entries[i].entry_points = ds.entries[j].entry_points)
            => ds.entries[i].entry_points = 10

SeedRowsAgreeWithoutTies == TopPointsDistinct => C27_SeedRowsAgreeWithDrawPositions

(***************************************************************************)
(* Knockout match generation: scripts/generation/generate_matches.py       *)
(*                                                                         *)
(* generate_knockout_matches receives the DrawPlayers rows of one draw as  *)
(* generate_draw_players returned them (one row per entrant, none for an   *)
(* empty slot), sorts them by draw_position and pairs neighbours of the    *)
(* sorted list round after round.  Each step below is one iteration of the *)
(* inner for loop; the random choices (no-show set, desired winner slot,   *)
(* match status) are inputs of the step.  The score fields of a row are    *)
(* those of SpecScore (ForceWinner) and match_date is rewritten by         *)
(* schedule_match_dates; neither is read by the pairing and both are left  *)
(* out of the rows kept here.                                              *)
(***************************************************************************)
KnockoutRow(pos, has_bye) == [player_id |-> PlayerAt(pos), draw_position |-> pos, has_bye |-> has_bye]

\* DrawPlayers rows of an 8-slot draw with seeds at positions 1 and 8: byes go to the seeds
\* first (slots 2 and 7 stay empty), then to unseeded players at the first slot of a pair
KnockoutDraws ==
    { <<KnockoutRow(1, FALSE), KnockoutRow(2, FALSE), KnockoutRow(3, FALSE), KnockoutRow(4, FALSE),
        KnockoutRow(5, FALSE), KnockoutRow(6, FALSE), KnockoutRow(7, FALSE), KnockoutRow(8, FALSE)>>,
      <<KnockoutRow(8, FALSE), KnockoutRow(1, TRUE), KnockoutRow(5, FALSE), KnockoutRow(3, FALSE),
        KnockoutRow(4, FALSE), KnockoutRow(6, FALSE), KnockoutRow(7, FALSE)>>,
      <<KnockoutRow(1, TRUE), KnockoutRow(8, TRUE), KnockoutRow(3, FALSE), KnockoutRow(4, FALSE),
        KnockoutRow(5, FALSE), KnockoutRow(6, FALSE)>>,
      <<KnockoutRow(1, TRUE), KnockoutRow(8, TRUE), KnockoutRow(3, TRUE), KnockoutRow(5, FALSE),
        KnockoutRow(6, FALSE)>>,
      <<KnockoutRow(1, TRUE), KnockoutRow(8, TRUE), KnockoutRow(5, TRUE), KnockoutRow(3, FALSE),
        KnockoutRow(4, FALSE)>>,
      <<KnockoutRow(1, TRUE), KnockoutRow(8, TRUE), KnockoutRow(3, TRUE), KnockoutRow(5, TRUE)>> }

\* _pick_post_draw_no_show_players: any subset of the players; here none or one of them
NoShowSets == {{}, {PlayerAt(4)}, {PlayerAt(8)}}

\* _pick_match_status_id
PickedMatchStatusIds == {STATUS_COMPLETED, STATUS_RETIRED, STATUS_DISQUALIFIED}

\* sorted(draw_players, key=lambda x: x['draw_position'])
RECURSIVE InsertByPosition(_, _)
InsertByPosition(sorted, p) ==
    IF sorted = << >> THEN <<p>>
    ELSE IF p.draw_position < Head(sorted).draw_position THEN <<p>> \o sorted
    ELSE <<Head(sorted)>> \o InsertByPosition(Tail(sorted), p)

RECURSIVE SortedByPosition(_)
SortedByPosition(draw_players) ==
    IF draw_players = << >> THEN << >>
    ELSE InsertByPosition(SortedByPosition(SubSeq(draw_players, 1, Len(draw_players) - 1)),
                          draw_players[Len(draw_players)])

calculate_round_id_for_draw(draw_size, round_number) ==
    LET starting_id == CASE draw_size = 8 -> 4
                         [] draw_size = 16 -> 3
                         [] draw_size = 32 -> 2
                         [] draw_size = 64 -> 1
                         [] OTHER -> 1
    IN  starting_id + (round_number - 1)

KnockoutInput(draw_players, no_show) ==
    [phase |-> "input", draw_players |-> draw_players, no_show |-> no_show,
     draw_size |-> None, round_number |-> None, i |-> None,
     current_round_players |-> << >>, next_round_players |-> << >>,
     rounds |-> << >>, matches |-> << >>, next_match_id |-> 1]

InitKnockout ==
    /\ tx = Idle
    /\ sd = Idle
    /\ ds = Idle
    /\ Matches = Idle
    /\ PlayerSuspensions = Idle
    /\ Players = Idle
    /\ DrawPlayers = Idle
    /\ last = Idle
    /\ calls = Idle
    /\ dp = Idle
    /\ sg = Idle
    /\ ph = Idle
    /\ wr = Idle
    /\ vm = Idle
    /\ \E draw_players \in KnockoutDraws, no_show \in NoShowSets :
          km = KnockoutInput(draw_players, no_show)

\* The end of one pass of the for loop: the next pair, the next round or the return
KnockoutProgress(k) ==
    IF k.i + 2 < Len(k.current_round_players) THEN [k EXCEPT !.i = @ + 2]
    ELSE IF Len(k.next_round_players) > 1
    THEN [k EXCEPT !.current_round_players = k.next_round_players,
                   !.next_round_players = << >>,
                   !.rounds = Append(@, k.next_round_players),
                   !.round_number = @ + 1, !.i = 0]
    ELSE [k EXCEPT !.current_round_players = k.next_round_players,
                   !.next_round_players = << >>,
                   !.rounds = Append(@, k.next_round_players),
                   !.phase = "returned"]

\* Lines 306-322: sort the rows, pick the no-show players, enter the while loop
GenerateKnockoutMatches ==
    /\ km.phase = "input"
    /\ LET current_round_players == SortedByPosition(km.draw_players)
       IN  km' = [km EXCEPT !.phase = IF Len(current_round_players) > 1 THEN "round"
                                      ELSE "returned",
                            !.draw_size = Len(current_round_players),
                            !.current_round_players = current_round_players,
                            !.rounds = <<current_round_players>>,
                            !.round_number = 1, !.i = 0]
    /\ UNCHANGED <<matchVars, dp, sg, ph, wr, vm, sd, tx, ds>>

\* Lines 328-341: the pass of the for loop that records no match
AdvanceWithoutMatch ==
    /\ km.phase = "round"
    /\ LET cur == km.current_round_players
           i   == km.i
       IN  \/ /\ i + 1 >= Len(cur)
              /\ km' = KnockoutProgress([km EXCEPT !.next_round_players = Append(@, cur[i + 1])])
           \/ /\ i + 1 < Len(cur)
              /\ cur[i + 1].has_bye
              /\ km' = KnockoutProgress([km EXCEPT !.next_round_players = Append(@, cur[i + 2])])
           \/ /\ i + 1 < Len(cur)
              /\ ~cur[i + 1].has_bye
              /\ cur[i + 2].has_bye
              /\ km' = KnockoutProgress([km EXCEPT !.next_round_players = Append(@, cur[i + 1])])
    /\ UNCHANGED <<matchVars, dp, sg, ph, wr, vm, sd, tx, ds>>

\* Lines 343-417: the pass of the for loop that records a match
GenerateMatch ==
    /\ km.phase = "round"
    /\ km.i + 1 < Len(km.current_round_players)
    /\ LET player1 == km.current_round_players[km.i + 1]
           player2 == km.current_round_players[km.i + 2]
           player1_no_show == player1.player_id \in km.no_show
           player2_no_show == player2.player_id \in km.no_show
       IN  /\ ~player1.has_bye
           /\ ~player2.has_bye
           /\ \E picked_slot \in {1, 2}, picked_status \in PickedMatchStatusIds :
                 LET desired_winner_slot ==
                         IF player2_no_show /\ ~player1_no_show THEN 1
                         ELSE IF player1_no_show /\ ~player2_no_show THEN 2
                         ELSE picked_slot
                     match_status_id ==
                         IF player1_no_show \/ player2_no_show THEN STATUS_WALKOVER
                         ELSE picked_status
                     winner == IF desired_winner_slot = 1 THEN player1 ELSE player2
                     match_data ==
                         [match_id |-> km.next_match_id,
                          round_id |-> calculate_round_id_for_draw(km.draw_size, km.round_number),
                          match_number |-> Len(km.matches) + 1,
                          player1_id |-> player1.player_id,
                          player2_id |-> player2.player_id,
                          match_status_id |-> match_status_id,
                          winner_id |-> winner.player_id]
                 IN  km' = KnockoutProgress([km EXCEPT
                               !.matches = Append(@, match_data),
                               !.next_match_id = @ + 1,
                               !.next_round_players = Append(@, winner)])
    /\ UNCHANGED <<matchVars, dp, sg, ph, wr, vm, sd, tx, ds>>

NextKnockout == GenerateKnockoutMatches \/ AdvanceWithoutMatch \/ GenerateMatch

SpecKnockout == InitKnockout /\ [][NextKnockout]_vars

KnockoutReturned == km.phase = "returned"

MatchesOfPlayer(player_id) ==
    {n \in DOMAIN km.matches :
        player_id \in {km.matches[n].player1_id, km.matches[n].player2_id}}

InRound(player_id, round_number) ==
    /\ round_number \in DOMAIN km.rounds
    /\ \E j \in DOMAIN km.rounds[round_number] :
          km.rounds[round_number][j].player_id = player_id

\* The player left when the while loop ends
LastPlayerStanding(player_id) == InRound(player_id, Len(km.rounds))

\* C30: byes automatically advance players: every player whose DrawPlayers row has
\* has_bye = true is among the players of the second round and has no first-round match,
\* and every player who leaves the bracket has a recorded match in which they took part
\* and which they did not win.
C30_ByesAdvanceAndLosersHaveAMatch ==
    KnockoutReturned =>
        \A n \in DOMAIN km.draw_players :
            LET p == km.draw_players[n]
            IN  /\ p.has_bye =>
                      /\ InRound(p.player_id, 2)
                      /\ \A m \in MatchesOfPlayer(p.player_id) :
                            km.matches[m].round_id #
                                calculate_round_id_for_draw(km.draw_size, 1)
                /\ ~LastPlayerStanding(p.player_id) =>
                      \E m \in MatchesOfPlayer(p.player_id) :
                          km.matches[m].winner_id # p.player_id

\* The same statement for draws without byes
NoByeLosersHaveAMatch ==
    (\A n \in DOMAIN km.draw_players : ~km.draw_players[n].has_bye)
        => C30_ByesAdvanceAndLosersHaveAMatch

=============================================================================
